---- MODULE Spec2Model ----
(***************************************************************************)
(* Verification model of the FinAgent backend's data-freshness and         *)
(* valuation layer:                                                        *)
(*   - services/fmp_cache.py                 (tiered TTL file cache)       *)
(*   - routes/portfolio.py                   (calculate_summary)           *)
(*   - services/portfolio_snapshot_service.py (daily snapshot store)       *)
(*                                                                         *)
(* Time is counted in quarter-days (6 hours), the smallest TTL of the      *)
(* cache's table (0.25 day), so every TTL is a whole number of units.      *)
(***************************************************************************)
EXTENDS Integers, Sequences, FiniteSets, TLC

VARIABLES
    cache,      \* FMPCache: the on-disk documents, one per (SYMBOL, endpoint) file
    now,        \* wall clock (datetime.now()), in quarter-days
    last,       \* FMPCache: what the last FMPCache.get call was given and what it did
    fq,         \* _is_fresh call: its arguments and result
    holdings,   \* calculate_summary: the list of enriched holdings it is given
    summary,    \* calculate_summary: the summary it returned
    snapshots,  \* PortfolioSnapshotService: the file snapshots.json (date -> snapshot)
    snapLast,   \* PortfolioSnapshotService: the last call and its result
    crypto,     \* CryptoService: the file crypto_cache/prices.json
    cryptoLast, \* CryptoService: the last get_prices_batch call and its result
    portfolio,  \* PortfolioService: the file portfolio.json (holdings by id)
    millis,     \* time.time() in whole milliseconds
    pfLast,     \* portfolio: the last add, update, remove or get_portfolio call
    procs       \* the calls in flight: for each caller, where it is and its locals

vars == <<cache, now, last, fq, holdings, summary, snapshots, snapLast,
          crypto, cryptoLast, portfolio, millis, pfLast, procs>>

(***************************************************************************)
(* Bounds of the model                                                     *)
(***************************************************************************)
MaxNow == 5

(***************************************************************************)
(* FMPCache                                                                *)
(***************************************************************************)
\* quarter-days per day: TTL_DAYS holds 0.25 (6 hours) as its finest value
UnitsPerDay == 4

\* The endpoint names the model calls get with. "profile" has a TTL of one day
\* and a fetcher; "search" has a TTL but no fetcher in endpoint_mapping.
Endpoints == {"profile", "search"}

\* Symbols as callers pass them; the cache upper-cases them.
Symbols == {"aapl", "AAPL", "MSFT"}

Upper(symbol) == IF symbol = "aapl" THEN "AAPL" ELSE symbol

UpperSymbols == {Upper(s) : s \in Symbols}

Keys == UpperSymbols \X Endpoints

\* TTL_DAYS with the shortest window of the table (0.25 day) as the default
TTL_DAYS_default_shortest(endpoint) ==
    CASE endpoint \in {"profile", "price_history", "earnings_calendar",
                       "price_target_consensus", "price_target_summary",
                       "analyst_grades", "analyst_grades_consensus",
                       "insider_trading", "senate_trades"} -> 1 * UnitsPerDay
      [] endpoint \in {"income_quarterly", "income_annual", "balance_sheet",
                       "cash_flow", "earnings", "ratios", "key_metrics"}
                                                            -> 90 * UnitsPerDay
      [] endpoint = "analyst_estimates"                     -> 30 * UnitsPerDay
      [] endpoint \in {"product_segments", "geo_segments"}  -> 365 * UnitsPerDay
      [] endpoint = "search"                                -> 7 * UnitsPerDay
      [] endpoint = "stock_news"                            -> 1
      [] OTHER                                              -> 1

\* TTL_DAYS.get(endpoint, 1), in quarter-days
TTL_DAYS(endpoint) ==
    CASE endpoint \in {"profile", "price_history", "earnings_calendar",
                       "price_target_consensus", "price_target_summary",
                       "analyst_grades", "analyst_grades_consensus",
                       "insider_trading", "senate_trades"} -> 1 * UnitsPerDay
      [] endpoint \in {"income_quarterly", "income_annual", "balance_sheet",
                       "cash_flow", "earnings", "ratios", "key_metrics"}
                                                            -> 90 * UnitsPerDay
      [] endpoint = "analyst_estimates"                     -> 30 * UnitsPerDay
      [] endpoint \in {"product_segments", "geo_segments"}  -> 365 * UnitsPerDay
      [] endpoint = "search"                                -> 7 * UnitsPerDay
      [] endpoint = "stock_news"                            -> 1
      [] OTHER                                              -> 1 * UnitsPerDay

\* The keys of endpoint_mapping in _fetch_from_api
MappedEndpoints ==
    {"profile", "income_quarterly", "income_annual", "balance_sheet", "cash_flow",
     "earnings", "product_segments", "geo_segments", "ratios", "key_metrics",
     "analyst_estimates", "price_history", "earnings_calendar", "stock_news",
     "insider_trading", "senate_trades", "price_target_consensus",
     "price_target_summary", "analyst_grades", "analyst_grades_consensus"}

\* Payloads the upstream API can answer with (response.json()): JSON null
\* (Python None), a dict whose text holds "Error", and two ordinary payloads.
Payloads == {"None", "ErrorDict", "p1", "p2"}

\* What the upstream does when asked: raise, or answer with a payload
ApiOutcomes == {"raise"} \cup Payloads

\* A file on disk: missing, unparseable, or a cache entry
Absent == [kind |-> "absent"]
Corrupt == [kind |-> "corrupt"]
None == [kind |-> "none"]
ReadError == [kind |-> "error"]

\* cache_entry of _write_cache; has_fetched_at is FALSE for a document that
\* lacks the "fetched_at" key (cached_data.get("fetched_at") is None)
Entry(symbol, endpoint, t, data) ==
    [kind |-> "entry", symbol |-> symbol, endpoint |-> endpoint,
     has_fetched_at |-> TRUE, fetched_at |-> t,
     ttl_days |-> TTL_DAYS(endpoint), data |-> data]

\* _get_file_path: the file of (symbol.upper(), endpoint)
get_file_path(symbol, endpoint) == <<Upper(symbol), endpoint>>

\* is_fresh with the expiry instant itself still counted as fresh
is_fresh_inclusive(cached_data, endpoint, t) ==
    IF cached_data.kind # "entry" THEN FALSE
    ELSE IF ~cached_data.has_fetched_at THEN FALSE
    ELSE t <= cached_data.fetched_at + TTL_DAYS(endpoint)

\* _is_fresh(cached_data, endpoint) at wall-clock time t
is_fresh(cached_data, endpoint, t) ==
    IF cached_data.kind # "entry" THEN FALSE
    ELSE IF ~cached_data.has_fetched_at THEN FALSE
    ELSE t < cached_data.fetched_at + TTL_DAYS(endpoint)

\* read_cache without the except clause: the parse error leaves _read_cache
read_cache_no_catch(c, symbol, endpoint) ==
    LET doc == c[get_file_path(symbol, endpoint)] IN
    IF doc.kind = "absent" THEN None
    ELSE IF doc.kind = "corrupt" THEN ReadError
    ELSE doc

\* _read_cache: None for a missing file and for one json.load cannot parse
\* (JSONDecodeError is caught)
read_cache(c, symbol, endpoint) ==
    LET doc == c[get_file_path(symbol, endpoint)] IN
    IF doc.kind = "absent" THEN None
    ELSE IF doc.kind = "corrupt" THEN None
    ELSE doc

\* write_cache that updates an existing entry in place, keeping its fetched_at
write_cache_keeps_fetched_at(c, symbol, endpoint, data, t) ==
    LET k == get_file_path(symbol, endpoint) IN
    [c EXCEPT ![k] = IF c[k].kind = "entry"
                     THEN [c[k] EXCEPT !.data = data]
                     ELSE Entry(Upper(symbol), endpoint, t, data)]

\* write_cache that writes the entry into every file of the symbol's directory
write_cache_whole_symbol(c, symbol, endpoint, data, t) ==
    [k \in Keys |-> IF k[1] = Upper(symbol)
                    THEN Entry(Upper(symbol), endpoint, t, data) ELSE c[k]]

\* _write_cache: the file is opened with 'w' and holds the new entry alone
write_cache(c, symbol, endpoint, data, t) ==
    [c EXCEPT ![get_file_path(symbol, endpoint)] =
        Entry(Upper(symbol), endpoint, t, data)]

\* _fetch_from_api: the mapped fetcher's outcome, ValueError for an endpoint
\* that endpoint_mapping does not hold
fetch_from_api(endpoint, api) ==
    IF endpoint \in MappedEndpoints THEN api ELSE "raise"

\* The guard of line 155: data is not None and
\* not (isinstance(data, dict) and "Error" in str(data))
is_valid_data(data) == data # "None" /\ data # "ErrorDict"

\* cache_hit with the force_refresh flag read the wrong way round
cache_hit_inverted_flag(force_refresh, cached, endpoint, t) ==
    /\ force_refresh
    /\ cached.kind = "entry"
    /\ is_fresh(cached, endpoint, t)

\* The cache-hit test of lines 143-145: not force_refresh, and
\* "cached and self._is_fresh(cached, endpoint)"
cache_hit(force_refresh, cached, endpoint, t) ==
    /\ ~force_refresh
    /\ cached.kind = "entry"
    /\ is_fresh(cached, endpoint, t)

\* get that reads the cache and returns a fresh entry whatever force_refresh is
get_ignores_force(c, t, endpoint, symbol0, force_refresh, api) ==
    LET symbol == Upper(symbol0)
        cached_bound == TRUE
        cached == IF cached_bound THEN read_cache(c, symbol, endpoint) ELSE None
        data == fetch_from_api(endpoint, api)
    IN  \* an exception of _read_cache is outside the try block
        IF cached.kind = "error"
        THEN [ret |-> "None", raised |-> "JSONDecodeError", fetched |-> FALSE,
              hit |-> FALSE, cache |-> c]
        ELSE IF cache_hit(FALSE, cached, endpoint, t)
        THEN [ret |-> cached.data, raised |-> "none", fetched |-> FALSE,
              hit |-> TRUE, cache |-> c]
        ELSE IF data # "raise"
        THEN [ret |-> data, raised |-> "none", fetched |-> TRUE, hit |-> FALSE,
              cache |-> IF is_valid_data(data)
                        THEN write_cache(c, symbol, endpoint, data, t)
                        ELSE c]
        \* except Exception: "if cached" reads a local that was never bound
        ELSE IF ~cached_bound
        THEN [ret |-> "None", raised |-> "UnboundLocalError", fetched |-> TRUE,
              hit |-> FALSE, cache |-> c]
        ELSE IF cached.kind = "entry"
        THEN [ret |-> cached.data, raised |-> "none", fetched |-> TRUE,
              hit |-> FALSE, cache |-> c]
        ELSE [ret |-> "None", raised |-> "none", fetched |-> TRUE,
              hit |-> FALSE, cache |-> c]

\* FMPCache.get as a function of the store c, the clock t, its arguments and
\* what the upstream would answer. Result: the returned value (ret), the
\* exception that left get (raised, "none" if it returned), whether
\* _fetch_from_api was called (fetched), whether it returned at the
\* cache-hit line (hit), and the store afterwards.
get(c, t, endpoint, symbol0, force_refresh, api) ==
    LET symbol == Upper(symbol0)
        \* cached is assigned only under "if not force_refresh"
        cached_bound == ~force_refresh
        cached == IF cached_bound THEN read_cache(c, symbol, endpoint) ELSE None
        data == fetch_from_api(endpoint, api)
    IN  \* an exception of _read_cache is outside the try block
        IF cached.kind = "error"
        THEN [ret |-> "None", raised |-> "JSONDecodeError", fetched |-> FALSE,
              hit |-> FALSE, cache |-> c]
        ELSE IF cache_hit(force_refresh, cached, endpoint, t)
        THEN [ret |-> cached.data, raised |-> "none", fetched |-> FALSE,
              hit |-> TRUE, cache |-> c]
        ELSE IF data # "raise"
        THEN [ret |-> data, raised |-> "none", fetched |-> TRUE, hit |-> FALSE,
              cache |-> IF is_valid_data(data)
                        THEN write_cache(c, symbol, endpoint, data, t)
                        ELSE c]
        \* except Exception: "if cached" reads a local that was never bound
        ELSE IF ~cached_bound
        THEN [ret |-> "None", raised |-> "UnboundLocalError", fetched |-> TRUE,
              hit |-> FALSE, cache |-> c]
        ELSE IF cached.kind = "entry"
        THEN [ret |-> cached.data, raised |-> "none", fetched |-> TRUE,
              hit |-> FALSE, cache |-> c]
        ELSE [ret |-> "None", raised |-> "none", fetched |-> TRUE,
              hit |-> FALSE, cache |-> c]

\* An argument left at its default (Python None)
NoArg == "None"

\* clear_cache(symbol, endpoint) that forgets the endpoint: the symbol's
\* whole directory goes
clear_cache_ignores_endpoint(c, symbol, endpoint) ==
    IF symbol # NoArg
    THEN [k \in Keys |-> IF k[1] = Upper(symbol) THEN Absent ELSE c[k]]
    ELSE [k \in Keys |-> Absent]

\* FMPCache.clear_cache(symbol, endpoint): the store afterwards. With both
\* arguments the one file is unlinked if it exists; with a symbol alone the
\* files of its directory; otherwise the cache directory is removed and
\* created again
clear_cache(c, symbol, endpoint) ==
    IF symbol # NoArg /\ endpoint # NoArg
    THEN [k \in Keys |-> IF k = get_file_path(symbol, endpoint) THEN Absent ELSE c[k]]
    ELSE IF symbol # NoArg
    THEN [k \in Keys |-> IF k[1] = Upper(symbol) THEN Absent ELSE c[k]]
    ELSE [k \in Keys |-> Absent]

\* No call has just returned
NoCall ==
    [op |-> "none", endpoint |-> "profile", symbol |-> "MSFT", force |-> FALSE,
     api |-> "raise", pre |-> Absent, ret |-> "None",
     raised |-> "none", fetched |-> FALSE, hit |-> FALSE]

\* The parts of the state at rest: each specification below moves one
\* component and leaves the others as constructed
CacheIdle == cache = [k \in Keys |-> Absent] /\ last = NoCall
FreshIdle == fq = [done |-> FALSE]
SummaryIdle == holdings = <<>> /\ summary = [done |-> FALSE]
SnapIdle == snapshots = [kind |-> "ok", data |-> <<>>] /\ snapLast = [op |-> "none"]
CryptoIdle == crypto = Absent /\ cryptoLast = [op |-> "none"]
PortfolioIdle == portfolio = <<>> /\ millis = 0 /\ pfLast = [op |-> "none"]
ProcsIdle == procs = <<>>

\* FMPCache.__init__: an empty cache directory
CacheInit ==
    /\ cache = [k \in Keys |-> Absent]
    /\ now = 0
    /\ last = NoCall
    /\ FreshIdle /\ SummaryIdle /\ SnapIdle /\ CryptoIdle /\ PortfolioIdle /\ ProcsIdle

\* A caller awaits fmp_cache.get(endpoint, symbol, force_refresh); last holds
\* the call that has just returned, with the file it found (pre)
Get(endpoint, symbol, force_refresh, api) ==
    LET r == get(cache, now, endpoint, symbol, force_refresh, api) IN
    /\ cache' = r.cache
    /\ last' = [op |-> "get", endpoint |-> endpoint, symbol |-> symbol,
                force |-> force_refresh, api |-> api,
                pre |-> cache[get_file_path(symbol, endpoint)],
                ret |-> r.ret, raised |-> r.raised, fetched |-> r.fetched,
                hit |-> r.hit]
    /\ UNCHANGED <<now, fq, holdings, summary, snapshots, snapLast,
                 crypto, cryptoLast, portfolio, millis, pfLast, procs>>

\* Wall-clock time passes
Tick ==
    /\ now < MaxNow
    /\ now' = now + 1
    /\ last' = NoCall
    /\ UNCHANGED <<cache, fq, holdings, summary, snapshots, snapLast,
                 crypto, cryptoLast, portfolio, millis, pfLast, procs>>

\* A cache file becomes unparseable (a write cut short, a damaged disk)
CorruptFile(k) ==
    /\ cache[k].kind = "entry"
    /\ cache' = [cache EXCEPT ![k] = Corrupt]
    /\ last' = NoCall
    /\ UNCHANGED <<now, fq, holdings, summary, snapshots, snapLast,
                 crypto, cryptoLast, portfolio, millis, pfLast, procs>>

\* A caller calls fmp_cache.clear_cache(symbol, endpoint), either argument
\* possibly left out; last holds the call that has just returned, with the
\* store it found (before)
ClearCache(symbol, endpoint) ==
    /\ cache' = clear_cache(cache, symbol, endpoint)
    /\ last' = [op |-> "clear", endpoint |-> endpoint, symbol |-> symbol,
                force |-> FALSE, api |-> "raise", pre |-> Absent, ret |-> "None",
                raised |-> "none", fetched |-> FALSE, hit |-> FALSE,
                before |-> cache]
    /\ UNCHANGED <<now, fq, holdings, summary, snapshots, snapLast,
                   crypto, cryptoLast, portfolio, millis, pfLast, procs>>

CacheNext ==
    \/ \E e \in Endpoints, s \in Symbols, f \in BOOLEAN, a \in ApiOutcomes :
          Get(e, s, f, a)
    \/ Tick
    \/ \E k \in Keys : CorruptFile(k)
    \/ \E s \in Symbols \cup {NoArg}, e \in Endpoints \cup {NoArg} : ClearCache(s, e)

SpecCache == CacheInit /\ [][CacheNext]_vars

(***************************************************************************)
(* FMPCache: properties of get                                             *)
(***************************************************************************)
\* The file the call that has just returned was about
LastKey == get_file_path(last.symbol, last.endpoint)

\* The call that has just returned called the fetcher and the fetcher failed
\* (the upstream raised, or endpoint_mapping has no fetcher for the endpoint)
LastFetchFailed ==
    last.op = "get" /\ last.fetched /\ fetch_from_api(last.endpoint, last.api) = "raise"

\* The call that has just returned called the fetcher and got a payload
LastFetchSucceeded ==
    last.op = "get" /\ last.fetched /\ fetch_from_api(last.endpoint, last.api) # "raise"

\* C1: whatever the options of get (force_refresh or not), if the fetcher fails
\* and a prior entry exists for the key, get returns the prior entry's payload
\* without raising and leaves the stored entry unchanged.
C1_StaleFallback ==
    (LastFetchFailed /\ last.pre.kind = "entry") =>
        /\ last.raised = "none"
        /\ last.ret = last.pre.data
        /\ cache[LastKey] = last.pre

\* C3: a get without force_refresh that finds an entry younger than its TTL
\* returns that entry's payload, does not call the fetcher, and leaves the
\* entry (payload and fetched_at) unchanged.
C3_FreshHit ==
    (/\ last.op = "get" /\ ~last.force
     /\ last.pre.kind = "entry"
     /\ now - last.pre.fetched_at < TTL_DAYS(last.endpoint)) =>
        /\ last.raised = "none"
        /\ last.ret = last.pre.data
        /\ ~last.fetched
        /\ cache[LastKey] = last.pre

\* C3 witness: a call without force_refresh has just hit an entry written at
\* an earlier time
C3_Witness ==
    /\ last.op = "get" /\ ~last.force /\ last.hit
    /\ last.pre.kind = "entry" /\ last.pre.fetched_at < now
    /\ last.ret = "p2"

\* C4: whatever the options of get, if the fetcher fails and no entry exists
\* for the key, get returns None, does not raise, and creates no entry.
C4_NoDataOnFailure ==
    (LastFetchFailed /\ last.pre.kind = "absent") =>
        /\ last.raised = "none"
        /\ last.ret = "None"
        /\ cache[LastKey] = Absent

\* C5 as stated: on every fetcher success get stores the fetched payload as
\* the key's entry, with fetched_at the time of the fetch, and returns it.
C5_PersistOnEverySuccess ==
    LastFetchSucceeded =>
        /\ last.ret = last.api
        /\ cache[LastKey] = Entry(Upper(last.symbol), last.endpoint, now, last.api)

\* C5 amended: on a fetcher success whose payload is valid (not None and not
\* a dict whose text holds "Error") get stores exactly the new entry (nothing
\* of the previous one is kept), fetched_at being the time of the fetch, and
\* returns the payload; a None or error payload is returned and the file is
\* left as it was. Every stored entry younger than its TTL is then a cache
\* hit for a get without force_refresh, returning the stored payload.
C5_PersistOnValidSuccess ==
    /\ (LastFetchSucceeded /\ is_valid_data(last.api)) =>
          /\ last.raised = "none"
          /\ last.ret = last.api
          /\ cache[LastKey] =
                [kind |-> "entry", symbol |-> Upper(last.symbol),
                 endpoint |-> last.endpoint, has_fetched_at |-> TRUE,
                 fetched_at |-> now, ttl_days |-> TTL_DAYS(last.endpoint),
                 data |-> last.api]
    /\ (LastFetchSucceeded /\ ~is_valid_data(last.api)) =>
          /\ last.raised = "none"
          /\ last.ret = last.api
          /\ cache[LastKey] = last.pre
    /\ \A k \in Keys :
          (cache[k].kind = "entry" /\ now - cache[k].fetched_at < TTL_DAYS(k[2])) =>
              \A a \in ApiOutcomes :
                  LET r == get(cache, now, k[2], k[1], FALSE, a) IN
                  /\ r.hit /\ ~r.fetched /\ r.raised = "none"
                  /\ r.ret = cache[k].data
                  /\ r.cache = cache

\* C5 witness: a successful fetch has just replaced an older entry that held
\* another payload
C5_Witness ==
    /\ LastFetchSucceeded /\ is_valid_data(last.api)
    /\ last.pre.kind = "entry" /\ last.pre.data # last.api
    /\ last.pre.fetched_at < now
    /\ cache[LastKey].data = last.api

\* C6 as stated: an unparseable document is read as None, get does not raise
\* on it and calls the fetcher, and on fetcher success the corrupt document
\* is replaced by a valid entry.
C6_CorruptReplacedOnEverySuccess ==
    /\ \A k \in Keys : cache[k].kind = "corrupt" => read_cache(cache, k[1], k[2]) = None
    /\ (last.op = "get" /\ last.pre.kind = "corrupt") =>
          /\ last.raised # "JSONDecodeError"
          /\ last.fetched
          /\ LastFetchSucceeded => cache[LastKey].kind = "entry"

\* C6 amended: an unparseable document is treated exactly like a missing one:
\* _read_cache returns None for it, and a get on it returns, raises, calls
\* the fetcher and leaves the file in the same way as the same get on a
\* missing file would; it never raises the parse error, always calls the
\* fetcher, and on a fetcher success with a valid payload (not None, not an
\* error dict) the corrupt document is replaced by a valid entry, while
\* otherwise the document stays as it is.
C6_CorruptLikeMissing ==
    /\ \A k \in Keys : cache[k].kind = "corrupt" => read_cache(cache, k[1], k[2]) = None
    /\ (last.op = "get" /\ last.pre.kind = "corrupt") =>
          LET r == get([cache EXCEPT ![LastKey] = Absent], now, last.endpoint,
                       last.symbol, last.force, last.api)
          IN  /\ last.raised # "JSONDecodeError"
              /\ last.fetched
              /\ last.ret = r.ret
              /\ last.raised = r.raised
              /\ last.fetched = r.fetched
              /\ last.hit = r.hit
              /\ IF LastFetchSucceeded /\ is_valid_data(last.api)
                 THEN /\ cache[LastKey] = Entry(Upper(last.symbol), last.endpoint,
                                                now, last.api)
                      /\ r.cache[LastKey] = cache[LastKey]
                 ELSE /\ cache[LastKey] = Corrupt
                      /\ r.cache[LastKey] = Absent

\* C6 witness: a get has just found a corrupt document, fetched, and
\* replaced the document by a valid entry
C6_Witness ==
    /\ last.op = "get" /\ last.pre.kind = "corrupt"
    /\ LastFetchSucceeded /\ is_valid_data(last.api)
    /\ cache[LastKey].kind = "entry" /\ cache[LastKey].data = last.api

(***************************************************************************)
(* FMPCache._is_fresh on its own                                           *)
(***************************************************************************)
\* Greatest age (quarter-days) of the entries _is_fresh is asked about
MaxAge == 1500

\* The endpoints _is_fresh is asked about: one per TTL of the table, and one
\* the table does not hold
FreshEndpoints ==
    {"profile", "income_quarterly", "analyst_estimates", "product_segments",
     "search", "stock_news", "price_history_30d"}

\* The moments the entries were fetched at
FreshFetchTimes == {0, 3}

\* The cached_data values _is_fresh is given: None, an entry without
\* "fetched_at", and entries fetched at one of FreshFetchTimes
FreshDocs(endpoint) ==
    {None}
    \cup {[Entry("AAPL", endpoint, 0, "p1") EXCEPT !.has_fetched_at = FALSE]}
    \cup {Entry("AAPL", endpoint, t, "p1") : t \in FreshFetchTimes}

FreshInit ==
    /\ now \in 0..MaxAge
    /\ \E e \in FreshEndpoints : \E d \in FreshDocs(e) :
          fq = [done |-> FALSE, cached |-> d, endpoint |-> e, result |-> FALSE]
    /\ fq.cached.kind = "entry" => fq.cached.fetched_at <= now
    /\ CacheIdle /\ SummaryIdle /\ SnapIdle /\ CryptoIdle /\ PortfolioIdle /\ ProcsIdle

\* self._is_fresh(cached_data, endpoint) is evaluated
IsFreshCall ==
    /\ ~fq.done
    /\ fq' = [fq EXCEPT !.done = TRUE,
                        !.result = is_fresh(fq.cached, fq.endpoint, now)]
    /\ UNCHANGED <<cache, now, last, holdings, summary, snapshots, snapLast,
                 crypto, cryptoLast, portfolio, millis, pfLast, procs>>

FreshNext == IsFreshCall

SpecFresh == FreshInit /\ [][FreshNext]_vars

\* Days in quarter-days
Days(n) == n * UnitsPerDay

\* C2: an entry that carries a fetch timestamp is fresh iff its age is less
\* than the TTL of its resource (an entry exactly TTL old is stale); None and
\* an entry without fetched_at are never fresh; quarterly data 30 days old is
\* fresh and 100 days old is stale.
C2_FreshIffYoungerThanTtl ==
    fq.done =>
        /\ (fq.cached.kind = "entry" /\ fq.cached.has_fetched_at) =>
              LET age == now - fq.cached.fetched_at IN
              /\ fq.result <=> (age < TTL_DAYS(fq.endpoint))
              /\ age = TTL_DAYS(fq.endpoint) => ~fq.result
              /\ (fq.endpoint = "income_quarterly" /\ age = Days(30)) => fq.result
              /\ (fq.endpoint = "income_quarterly" /\ age = Days(100)) => ~fq.result
              /\ (fq.endpoint = "income_quarterly" /\ age = Days(90) - 1) => fq.result
        /\ fq.cached.kind # "entry" => ~fq.result
        /\ (fq.cached.kind = "entry" /\ ~fq.cached.has_fetched_at) => ~fq.result

\* C2 witness: _is_fresh has called a quarterly entry exactly 90 days old stale
C2_Witness ==
    /\ fq.done
    /\ fq.endpoint = "income_quarterly"
    /\ fq.cached.kind = "entry" /\ fq.cached.has_fetched_at
    /\ now - fq.cached.fetched_at = Days(90)
    /\ ~fq.result

(***************************************************************************)
(* Valuation: enrich_holding and calculate_summary (routes/portfolio.py)   *)
(*                                                                         *)
(* Amounts are whole numbers. An optional number (Python None or a value)  *)
(* is a sequence: <<>> for None, <<v>> for v. totalGainLossPercent is the  *)
(* exact fraction num/den of the float the code computes.                  *)
(***************************************************************************)
\* Longest list of holdings the model summarises
MaxHoldings == 3

NoneNum == <<>>
Some(v) == <<v>>
IsNone(x) == x = <<>>
Val(x) == x[1]

\* The byAssetType keys calculate_summary creates (lines 232-238)
SummaryTypes == {"stock", "etf", "crypto", "custom", "cash"}

\* Holdings of the store: assetType is whatever string add_holding was given
\* (AddHoldingRequest.assetType is not validated), quantity and costBasis
\* are the user's numbers
RawHoldings ==
    {[assetType |-> "stock", quantity |-> 10, costBasis |-> 100],
     [assetType |-> "etf", quantity |-> 20, costBasis |-> 50],
     [assetType |-> "cash", quantity |-> 1, costBasis |-> 5000],
     [assetType |-> "cash", quantity |-> 1, costBasis |-> 10000],
     [assetType |-> "custom", quantity |-> 1, costBasis |-> 17000],
     [assetType |-> "option", quantity |-> 5, costBasis |-> 350]}

\* What a price lookup yields: no price, or one of these prices
Lookups == {NoneNum, Some(45), Some(120), Some(150), Some(350)}

\* The price get_portfolio hands to enrich_holding (lines 194-213): custom
\* and cash holdings are priced at their cost basis, the others by lookup
price_for(holding, lookup) ==
    IF holding.assetType \in {"custom", "cash"}
    THEN Some(holding.costBasis)
    ELSE lookup

\* gain_loss / total_cost * 100, as the exact fraction; 0 when total_cost is 0
Percent(gain_loss, total_cost) ==
    IF total_cost > 0
    THEN [num |-> gain_loss * 100, den |-> total_cost]
    ELSE [num |-> 0, den |-> 1]

\* enrich_holding that values a holding without a price at 0
enrich_holding_unknown_as_zero(holding, price) ==
    LET quantity == holding.quantity
        cost_basis == holding.costBasis
        total_cost == quantity * cost_basis
        current_value == IF ~IsNone(price) THEN Some(quantity * Val(price)) ELSE Some(0)
        gain_loss == IF ~IsNone(price) THEN Some(Val(current_value) - total_cost)
                     ELSE Some(0)
        gain_loss_percent == IF ~IsNone(price)
                             THEN Some(Percent(Val(gain_loss), total_cost))
                             ELSE Some(Percent(0, total_cost))
    \* {**holding, "currentPrice": price, ...}
    IN  [currentPrice |-> price,
         currentValue |-> current_value, totalCost |-> total_cost,
         gainLoss |-> gain_loss, gainLossPercent |-> gain_loss_percent] @@ holding

\* enrich_holding(holding, price, ...): the pricing fields it adds
enrich_holding(holding, price) ==
    LET quantity == holding.quantity
        cost_basis == holding.costBasis
        total_cost == quantity * cost_basis
        current_value == IF ~IsNone(price) THEN Some(quantity * Val(price)) ELSE NoneNum
        gain_loss == IF ~IsNone(price) THEN Some(Val(current_value) - total_cost)
                     ELSE NoneNum
        gain_loss_percent == IF ~IsNone(price)
                             THEN Some(Percent(Val(gain_loss), total_cost))
                             ELSE NoneNum
    \* {**holding, "currentPrice": price, ...}
    IN  [currentPrice |-> price,
         currentValue |-> current_value, totalCost |-> total_cost,
         gainLoss |-> gain_loss, gainLossPercent |-> gain_loss_percent] @@ holding

\* _enrich_for_snapshot(holding, price) of take_snapshot: the same pricing
\* fields, computed by its own copy of the code (lines 384-406)
enrich_for_snapshot(holding, price) ==
    LET quantity == holding.quantity
        cost_basis == holding.costBasis
        total_cost == quantity * cost_basis
        current_value == IF ~IsNone(price) THEN Some(quantity * Val(price)) ELSE NoneNum
        gain_loss == IF ~IsNone(price) THEN Some(Val(current_value) - total_cost)
                     ELSE NoneNum
        gain_loss_percent == IF ~IsNone(price)
                             THEN Some(Percent(Val(gain_loss), total_cost))
                             ELSE NoneNum
    \* {**holding, "currentPrice": price, ...}
    IN  [currentPrice |-> price,
         currentValue |-> current_value, totalCost |-> total_cost,
         gainLoss |-> gain_loss, gainLossPercent |-> gain_loss_percent] @@ holding

\* The summary calculate_summary starts from (lines 227-239)
EmptyBucket == [count |-> 0, value |-> 0, cost |-> 0, gainLoss |-> 0]

EmptySummary ==
    [totalValue |-> 0, totalCost |-> 0, totalGainLoss |-> 0,
     totalGainLossPercent |-> [num |-> 0, den |-> 1],
     byAssetType |-> [t \in SummaryTypes |-> EmptyBucket]]

\* summary_add without the cash exclusion of line 260: every holding's cost
\* goes into totalCost
summary_add_counts_cash(sm, holding) ==
    LET asset_type == holding.assetType
        total_cost == holding.totalCost
        current_value == holding.currentValue
        gain_loss == holding.gainLoss
        in_buckets == asset_type \in DOMAIN sm.byAssetType
        b == sm.byAssetType[asset_type]
        add_value == in_buckets /\ ~IsNone(current_value)
        add_gain == in_buckets /\ ~IsNone(gain_loss)
        buckets ==
            IF in_buckets
            THEN [sm.byAssetType EXCEPT ![asset_type] =
                    [count |-> b.count + 1,
                     cost |-> b.cost + total_cost,
                     value |-> IF add_value THEN b.value + Val(current_value)
                               ELSE b.value,
                     gainLoss |-> IF add_gain THEN b.gainLoss + Val(gain_loss)
                                  ELSE b.gainLoss]]
            ELSE sm.byAssetType
    IN  [totalValue |-> IF add_value THEN sm.totalValue + Val(current_value)
                        ELSE sm.totalValue,
         totalGainLoss |-> IF add_gain THEN sm.totalGainLoss + Val(gain_loss)
                           ELSE sm.totalGainLoss,
         totalCost |-> sm.totalCost + total_cost,
         totalGainLossPercent |-> sm.totalGainLossPercent,
         byAssetType |-> buckets]

\* One pass of the loop of calculate_summary (lines 241-261)
summary_add(sm, holding) ==
    LET asset_type == holding.assetType
        total_cost == holding.totalCost
        current_value == holding.currentValue
        gain_loss == holding.gainLoss
        in_buckets == asset_type \in DOMAIN sm.byAssetType
        b == sm.byAssetType[asset_type]
        add_value == in_buckets /\ ~IsNone(current_value)
        add_gain == in_buckets /\ ~IsNone(gain_loss)
        buckets ==
            IF in_buckets
            THEN [sm.byAssetType EXCEPT ![asset_type] =
                    [count |-> b.count + 1,
                     cost |-> b.cost + total_cost,
                     value |-> IF add_value THEN b.value + Val(current_value)
                               ELSE b.value,
                     gainLoss |-> IF add_gain THEN b.gainLoss + Val(gain_loss)
                                  ELSE b.gainLoss]]
            ELSE sm.byAssetType
    IN  [totalValue |-> IF add_value THEN sm.totalValue + Val(current_value)
                        ELSE sm.totalValue,
         totalGainLoss |-> IF add_gain THEN sm.totalGainLoss + Val(gain_loss)
                           ELSE sm.totalGainLoss,
         \* Exclude cash from totalCost (line 260)
         totalCost |-> IF asset_type # "cash" THEN sm.totalCost + total_cost
                       ELSE sm.totalCost,
         totalGainLossPercent |-> sm.totalGainLossPercent,
         byAssetType |-> buckets]

RECURSIVE summary_loop(_, _)
\* The for loop of calculate_summary over the holdings, in order
summary_loop(sm, hs) ==
    IF hs = <<>> THEN sm
    ELSE summary_loop(summary_add(sm, Head(hs)), Tail(hs))

\* calculate_summary(holdings)
calculate_summary(hs) ==
    LET sm == summary_loop(EmptySummary, hs) IN
    IF sm.totalCost > 0
    THEN [sm EXCEPT !.totalGainLossPercent =
                        [num |-> sm.totalGainLoss * 100, den |-> sm.totalCost]]
    ELSE sm

\* get_portfolio has no enriched holdings yet and no summary
SummaryInit ==
    /\ holdings = <<>>
    /\ summary = [done |-> FALSE]
    /\ now = 0
    /\ CacheIdle /\ FreshIdle /\ SnapIdle /\ CryptoIdle /\ PortfolioIdle /\ ProcsIdle

\* get_portfolio enriches one more holding of the store with the price its
\* lookup gave
EnrichHolding(raw, lookup) ==
    /\ Len(holdings) < MaxHoldings
    /\ holdings' = Append(holdings, enrich_holding(raw, price_for(raw, lookup)))
    /\ summary' = [done |-> FALSE]
    /\ UNCHANGED <<cache, now, last, fq, snapshots, snapLast,
                 crypto, cryptoLast, portfolio, millis, pfLast, procs>>

\* get_portfolio calls calculate_summary(enriched_holdings)
CalculateSummary ==
    /\ ~summary.done
    /\ summary' = [done |-> TRUE, s |-> calculate_summary(holdings)]
    /\ UNCHANGED <<cache, now, last, fq, holdings, snapshots, snapLast,
                 crypto, cryptoLast, portfolio, millis, pfLast, procs>>

SummaryNext ==
    \/ \E raw \in RawHoldings, lookup \in Lookups : EnrichHolding(raw, lookup)
    \/ CalculateSummary

SpecSummary == SummaryInit /\ [][SummaryNext]_vars

(***************************************************************************)
(* Valuation: properties of calculate_summary                              *)
(***************************************************************************)
RECURSIVE SumTo(_, _)
\* f[1] + ... + f[n]
SumTo(f, n) == IF n = 0 THEN 0 ELSE f[n] + SumTo(f, n - 1)

IsCash(h) == h.assetType = "cash"
NotCash(h) == h.assetType # "cash"

\* The number of cash holdings of the list
CashCount(hs) == Cardinality({i \in 1..Len(hs) : IsCash(hs[i])})

\* The sum of the known currentValue of the cash holdings of the list
CashValue(hs) ==
    SumTo([i \in 1..Len(hs) |->
              IF IsCash(hs[i]) /\ ~IsNone(hs[i].currentValue)
              THEN Val(hs[i].currentValue) ELSE 0], Len(hs))

\* The sum of totalCost of the holdings of the list that are not cash
NonCashCost(hs) ==
    SumTo([i \in 1..Len(hs) |-> IF NotCash(hs[i]) THEN hs[i].totalCost ELSE 0],
          Len(hs))

\* The holdings of the examples of the claim
Stock1200 == enrich_holding([assetType |-> "stock", quantity |-> 10, costBasis |-> 100],
                            Some(120))
Stock1500 == enrich_holding([assetType |-> "stock", quantity |-> 10, costBasis |-> 100],
                            Some(150))
Cash5000 == enrich_holding([assetType |-> "cash", quantity |-> 1, costBasis |-> 5000],
                           Some(5000))

\* C7: a cash holding adds its currentValue to totalValue and to the cash
\* bucket (count and value) and nothing to totalCost, so the percentage is
\* taken over the cost of the non-cash holdings: stock (cost 1000, value
\* 1200) with cash 5000 gives totalCost 1000 and totalValue 6200; a stock
\* with gain 500 on cost 1000 plus any cash gives 50 percent.
C7_CashExcludedFromCost ==
    summary.done =>
        LET s == summary.s
            others == SelectSeq(holdings, NotCash)
        IN  /\ s.byAssetType["cash"].count = CashCount(holdings)
            /\ s.byAssetType["cash"].value = CashValue(holdings)
            /\ s.totalCost = NonCashCost(holdings)
            /\ s.totalValue = calculate_summary(others).totalValue + CashValue(holdings)
            /\ s.totalGainLossPercent = Percent(s.totalGainLoss, NonCashCost(holdings))
            /\ (holdings = <<Stock1200, Cash5000>> \/ holdings = <<Cash5000, Stock1200>>) =>
                  s.totalCost = 1000 /\ s.totalValue = 6200
            /\ (others = <<Stock1500>>) =>
                  /\ s.totalGainLoss = 500 /\ s.totalCost = 1000
                  /\ s.totalGainLossPercent.num = 50 * s.totalGainLossPercent.den

\* C7 witness: the summary of the stock (cost 1000, value 1200) and the cash
\* holding of 5000 has been computed
C7_Witness ==
    /\ summary.done
    /\ holdings = <<Stock1200, Cash5000>>
    /\ summary.s.totalCost = 1000 /\ summary.s.totalValue = 6200
    /\ summary.s.byAssetType["cash"].count = 1

\* C8: for every list of enriched holdings, whatever their assetType, the
\* totals are the sums over the byAssetType buckets: totalValue over all
\* buckets, totalCost over all buckets but cash, totalGainLoss over all
\* buckets; and totalGainLossPercent = totalGainLoss / totalCost x 100 when
\* totalCost > 0, else 0.
C8_TotalsAreBucketSums ==
    summary.done =>
        LET s == summary.s
            b == s.byAssetType
        IN  /\ s.totalValue = b["stock"].value + b["etf"].value + b["crypto"].value
                              + b["custom"].value + b["cash"].value
            /\ s.totalCost = b["stock"].cost + b["etf"].cost + b["crypto"].cost
                             + b["custom"].cost
            /\ s.totalGainLoss = b["stock"].gainLoss + b["etf"].gainLoss
                                 + b["crypto"].gainLoss + b["custom"].gainLoss
                                 + b["cash"].gainLoss
            /\ s.totalGainLossPercent =
                  IF s.totalCost > 0
                  THEN [num |-> s.totalGainLoss * 100, den |-> s.totalCost]
                  ELSE [num |-> 0, den |-> 1]

(***************************************************************************)
(* PortfolioSnapshotService (services/portfolio_snapshot_service.py)       *)
(*                                                                         *)
(* A date is the number of the calendar day: strftime("%Y-%m-%d") of the   *)
(* clock keeps the day and drops the time of day, and the zero-padded      *)
(* strings order as the days do.                                           *)
(***************************************************************************)
\* Last calendar day the clock of the snapshot model reaches
MaxDay == 2

\* datetime.now().strftime("%Y-%m-%d")
today(t) == t \div UnitsPerDay

\* The asset types save_snapshot copies (line 89)
SnapshotTypes == {"stock", "etf", "crypto", "custom", "cash"}

\* The summaries take_snapshot passes: calculate_summary of enriched holdings
SnapSummaries ==
    {calculate_summary(<<enrich_holding(
          [assetType |-> "stock", quantity |-> 10, costBasis |-> 100], Some(120))>>),
     calculate_summary(<<enrich_holding(
          [assetType |-> "stock", quantity |-> 10, costBasis |-> 100], Some(150)),
        enrich_holding(
          [assetType |-> "cash", quantity |-> 1, costBasis |-> 5000], Some(5000))>>)}

\* _load_snapshots: the parsed map, {} when the file cannot be parsed
load_snapshots(file) == IF file.kind = "ok" THEN file.data ELSE <<>>

\* _save_snapshots: the file is rewritten with the whole map
save_snapshots(snaps) == [kind |-> "ok", data |-> snaps]

\* has_today_snapshot at clock t
has_today_snapshot(file, t) == today(t) \in DOMAIN load_snapshots(file)

\* snapshots[key] = value on a dict
DictSet(f, key, value) ==
    IF key \in DOMAIN f THEN [f EXCEPT ![key] = value] ELSE f @@ (key :> value)

\* The snapshot save_snapshot builds from a summary at clock t (lines 79-96);
\* type_data.get(field, 0) is 0 for an asset type the summary does not hold
make_snapshot(sm, t) ==
    [totalValue |-> sm.totalValue,
     totalCost |-> sm.totalCost,
     totalGainLoss |-> sm.totalGainLoss,
     totalGainLossPercent |-> sm.totalGainLossPercent,
     byAssetType |->
        [a \in SnapshotTypes |->
            IF a \in DOMAIN sm.byAssetType
            THEN [value |-> sm.byAssetType[a].value,
                  cost |-> sm.byAssetType[a].cost,
                  gainLoss |-> sm.byAssetType[a].gainLoss,
                  count |-> sm.byAssetType[a].count]
            ELSE [value |-> 0, cost |-> 0, gainLoss |-> 0, count |-> 0]],
     takenAt |-> t]

\* save_snapshot without the "already taken today" test: it always writes
save_snapshot_always_writes(file, t, sm, force) ==
    LET day == today(t)
        snaps == load_snapshots(file)
        snapshot == make_snapshot(sm, t)
    IN  [ret |-> [date |-> day, alreadyExists |-> FALSE, snapshot |-> snapshot],
         file |-> save_snapshots(DictSet(snaps, day, snapshot))]

\* save_snapshot that writes a file holding today's snapshot alone
save_snapshot_drops_history(file, t, sm, force) ==
    LET day == today(t)
        snaps == load_snapshots(file)
        snapshot == make_snapshot(sm, t)
    IN  IF day \in DOMAIN snaps /\ ~force
        THEN [ret |-> [date |-> day, alreadyExists |-> TRUE, snapshot |-> snaps[day]],
              file |-> file]
        ELSE [ret |-> [date |-> day, alreadyExists |-> FALSE, snapshot |-> snapshot],
              file |-> save_snapshots(day :> snapshot)]

\* save_snapshot that leaves a file it cannot parse as it is
save_snapshot_keeps_unparseable(file, t, sm, force) ==
    LET day == today(t)
        snaps == load_snapshots(file)
        snapshot == make_snapshot(sm, t)
    IN  IF day \in DOMAIN snaps /\ ~force
        THEN [ret |-> [date |-> day, alreadyExists |-> TRUE, snapshot |-> snaps[day]],
              file |-> file]
        ELSE [ret |-> [date |-> day, alreadyExists |-> FALSE, snapshot |-> snapshot],
              file |-> IF file.kind = "ok"
                       THEN save_snapshots(DictSet(snaps, day, snapshot))
                       ELSE file]

\* save_snapshot(summary, force) at clock t on the file: what it returns
\* ({"date", "alreadyExists", **snapshot}) and the file afterwards
save_snapshot(file, t, sm, force) ==
    LET day == today(t)
        snaps == load_snapshots(file)
        snapshot == make_snapshot(sm, t)
    IN  IF day \in DOMAIN snaps /\ ~force
        THEN [ret |-> [date |-> day, alreadyExists |-> TRUE, snapshot |-> snaps[day]],
              file |-> file]
        ELSE [ret |-> [date |-> day, alreadyExists |-> FALSE, snapshot |-> snapshot],
              file |-> save_snapshots(DictSet(snaps, day, snapshot))]

\* PortfolioSnapshotService.__init__: snapshots.json is created holding {}
SnapInit ==
    /\ snapshots = [kind |-> "ok", data |-> <<>>]
    /\ snapLast = [op |-> "none"]
    /\ now = 0
    /\ CacheIdle /\ FreshIdle /\ SummaryIdle /\ CryptoIdle /\ PortfolioIdle /\ ProcsIdle

\* A caller calls save_snapshot(summary, force); snapLast holds the call that
\* has just returned, with the file it found (pre)
SaveSnapshot(sm, force) ==
    LET r == save_snapshot(snapshots, now, sm, force) IN
    /\ snapshots' = r.file
    /\ snapLast' = [op |-> "save", summary |-> sm, force |-> force,
                    pre |-> snapshots, ret |-> r.ret]
    /\ UNCHANGED <<cache, now, last, fq, holdings, summary,
                 crypto, cryptoLast, portfolio, millis, pfLast, procs>>

\* Wall-clock time passes, into the next calendar day every UnitsPerDay steps
SnapTick ==
    /\ now + 1 < (MaxDay + 1) * UnitsPerDay
    /\ now' = now + 1
    /\ snapLast' = [op |-> "none"]
    /\ UNCHANGED <<cache, last, fq, holdings, summary, snapshots,
                 crypto, cryptoLast, portfolio, millis, pfLast, procs>>

\* snapshots.json becomes unparseable (a write cut short, a damaged disk)
CorruptSnapshots ==
    /\ snapshots.kind = "ok"
    /\ snapshots' = Corrupt
    /\ snapLast' = [op |-> "none"]
    /\ UNCHANGED <<cache, now, last, fq, holdings, summary,
                   crypto, cryptoLast, portfolio, millis, pfLast, procs>>

\* A caller calls has_today_snapshot()
HasTodaySnapshot ==
    /\ snapLast.op = "none"
    /\ snapLast' = [op |-> "has_today", ret |-> has_today_snapshot(snapshots, now)]
    /\ UNCHANGED <<cache, now, last, fq, holdings, summary, snapshots,
                   crypto, cryptoLast, portfolio, millis, pfLast, procs>>

SnapNext ==
    \/ \E sm \in SnapSummaries, force \in BOOLEAN : SaveSnapshot(sm, force)
    \/ SnapTick
    \/ CorruptSnapshots
    \/ HasTodaySnapshot

SpecSnap == SnapInit /\ [][SnapNext]_vars

(***************************************************************************)
(* PortfolioSnapshotService: properties of save_snapshot                   *)
(***************************************************************************)
\* The clock values of the rest of the calendar day of t, t included
RestOfDay(t) == {u \in t..(t + UnitsPerDay) : today(u) = today(t)}

\* C9: two save_snapshot calls on one calendar day without force: the second
\* returns alreadyExists = true with the stored values the first returned,
\* whatever summary it is given, and leaves the store unchanged;
\* has_today_snapshot is true after the first.
C9_SaveTwiceSameDay ==
    (snapLast.op = "save" /\ ~snapLast.force) =>
        \* the call that has just returned, as the first of the two
        /\ has_today_snapshot(snapshots, now)
        /\ snapLast.ret.date = today(now)
        /\ snapLast.ret.snapshot = load_snapshots(snapshots)[today(now)]
        /\ \A t2 \in RestOfDay(now) : \A sm2 \in SnapSummaries :
              LET r2 == save_snapshot(snapshots, t2, sm2, FALSE) IN
              /\ r2.ret.alreadyExists
              /\ r2.ret.date = snapLast.ret.date
              /\ r2.ret.snapshot = snapLast.ret.snapshot
              /\ r2.file = snapshots
        \* the call that has just returned, as the second of the two
        /\ has_today_snapshot(snapLast.pre, now) =>
              /\ snapLast.ret.alreadyExists
              /\ snapLast.ret.snapshot = load_snapshots(snapLast.pre)[today(now)]
              /\ snapshots = snapLast.pre

\* C9 witness: a save without force has just found today's snapshot, taken
\* earlier in the day from another summary, and returned it
C9_Witness ==
    /\ snapLast.op = "save" /\ ~snapLast.force
    /\ snapLast.ret.alreadyExists
    /\ snapLast.ret.snapshot.takenAt < now
    /\ snapLast.ret.snapshot.totalValue # snapLast.summary.totalValue
    /\ snapshots = snapLast.pre

\* C10: the store holds at most one snapshot per calendar day (one entry per
\* date, none for a day to come or taken before its day, and no more entries
\* than days so far); a forced save replaces today's entry alone with the given
\* summary and reports alreadyExists = false; no save modifies or removes
\* the entry of another day.
C10_OnePerDayAndFrame ==
    LET snaps == load_snapshots(snapshots) IN
    /\ \A d \in DOMAIN snaps : d <= today(now) /\ today(snaps[d].takenAt) >= d
    /\ Cardinality(DOMAIN snaps) <= today(now) + 1
    /\ snapLast.op = "save" =>
          LET before == load_snapshots(snapLast.pre) IN
          /\ \A d \in DOMAIN before :
                d # today(now) => (d \in DOMAIN snaps /\ snaps[d] = before[d])
          /\ DOMAIN snaps \subseteq DOMAIN before \cup {today(now)}
          /\ snapLast.force =>
                /\ ~snapLast.ret.alreadyExists
                /\ snaps[today(now)] = snapLast.ret.snapshot
                /\ snaps[today(now)].takenAt = now
                /\ snaps[today(now)].totalValue = snapLast.summary.totalValue
                /\ snaps[today(now)].totalCost = snapLast.summary.totalCost
                /\ snaps[today(now)].totalGainLoss = snapLast.summary.totalGainLoss
                /\ snaps[today(now)].totalGainLossPercent =
                      snapLast.summary.totalGainLossPercent
                /\ \A a \in SnapshotTypes :
                      /\ snaps[today(now)].byAssetType[a].value =
                            snapLast.summary.byAssetType[a].value
                      /\ snaps[today(now)].byAssetType[a].count =
                            snapLast.summary.byAssetType[a].count

\* C10 witness: a forced save has just replaced today's entry by another
\* summary's while the store holds the entry of an earlier day
C10_Witness ==
    /\ snapLast.op = "save" /\ snapLast.force
    /\ has_today_snapshot(snapLast.pre, now)
    /\ load_snapshots(snapLast.pre)[today(now)].totalValue # snapLast.summary.totalValue
    /\ load_snapshots(snapshots)[today(now)].totalValue = snapLast.summary.totalValue
    /\ \E d \in DOMAIN load_snapshots(snapshots) : d < today(now)

(***************************************************************************)
(* PortfolioSnapshotService: the queries get_nearest_snapshot and          *)
(* get_performance, asked of stores that hold a few snapshots              *)
(***************************************************************************)
\* Most snapshots a store of the query model holds
MaxSnaps == 2

\* range(4) of get_nearest_snapshot: the days target, target-1, ..., target-3
LookbackRange == 4

\* Days of a year of the calendar (leap years are not modelled)
DaysPerYear == 365

\* f"{today.year}-01-01": the first day of the year of day d
YearStart(d) == d - (d % DaysPerYear)

\* The days the queries are asked on: one late enough in its year for the
\* 1W, 1M and 3M anchors to fall in the same year, one in the first days of
\* the next year
QueryTodays == {97, 368}

\* How many days before the day of the query the snapshots were taken
QueryOffsets == {0, 3, 4, 7, 10, 11, 30, 33, 34, 90, 93, 94}

\* The dates the stores of the query model hold snapshots for: days before
\* the day of the query, and the days up to the first of the year
QueryDates(day) ==
    {day - o : o \in QueryOffsets}
    \cup {d \in {YearStart(day) - o : o \in 0..LookbackRange} : d <= day}

\* The summaries the snapshots were taken from, one of them worth nothing
QuerySummaries == SnapSummaries \cup {calculate_summary(<<>>)}

\* The stores save_snapshot leaves after some days: for each date of D the
\* snapshot of one summary, taken on that day
QueryStores(day) ==
    UNION {[D -> QuerySummaries] :
              D \in {E \in SUBSET QueryDates(day) : Cardinality(E) <= MaxSnaps}}

\* The file that holds, for each date of the store st, the snapshot of its summary
StoreFile(st) ==
    save_snapshots([d \in DOMAIN st |-> make_snapshot(st[d], Days(d))])

\* No snapshot (Python None)
NoSnapshot == [kind |-> "none"]

\* {"date": check_date, **snapshots[check_date]}
DatedSnapshot(date, snapshot) ==
    [kind |-> "snapshot", date |-> date, snapshot |-> snapshot]

RECURSIVE nearest_loop(_, _, _)
\* The for loop of get_nearest_snapshot (lines 142-147), from pass i on
nearest_loop(snaps, target, i) ==
    IF i >= LookbackRange THEN NoSnapshot
    ELSE IF target - i \in DOMAIN snaps
         THEN DatedSnapshot(target - i, snaps[target - i])
         ELSE nearest_loop(snaps, target, i + 1)

\* get_nearest_snapshot that takes the latest snapshot on or before the
\* target, however old
get_nearest_snapshot_unbounded(file, target) ==
    LET snaps == load_snapshots(file)
        prior == {d \in DOMAIN snaps : d <= target}
    IN  IF prior = {} THEN NoSnapshot
        ELSE LET d == CHOOSE x \in prior : \A y \in prior : y <= x
             IN  DatedSnapshot(d, snaps[d])

\* get_nearest_snapshot(target_date) on the file
get_nearest_snapshot(file, target) ==
    LET snaps == load_snapshots(file) IN
    IF DOMAIN snaps = {} THEN NoSnapshot
    ELSE nearest_loop(snaps, target, 0)

RECURSIVE sorted_dates(_)
\* sort(key=date) of a set of dates, ascending
sorted_dates(S) ==
    IF S = {} THEN <<>>
    ELSE LET m == CHOOSE x \in S : \A y \in S : x <= y
         IN  <<m>> \o sorted_dates(S \ {m})

\* get_snapshots that leaves out the snapshot dated on the cutoff itself
get_snapshots_after_cutoff(file, t, days) ==
    LET snaps == load_snapshots(file)
        cutoff == today(t - Days(days))
        ds == sorted_dates({d \in DOMAIN snaps : d > cutoff})
    IN  [i \in 1..Len(ds) |-> DatedSnapshot(ds[i], snaps[ds[i]])]

\* get_snapshots(days) at clock t: the snapshots dated on or after the
\* cutoff, by ascending date
get_snapshots(file, t, days) ==
    LET snaps == load_snapshots(file)
        cutoff == today(t - Days(days))
        ds == sorted_dates({d \in DOMAIN snaps : d >= cutoff})
    IN  [i \in 1..Len(ds) |-> DatedSnapshot(ds[i], snaps[ds[i]])]

\* The labels of the periods of get_performance (lines 166-171)
PeriodLabels == {"1W", "1M", "3M", "YTD"}

\* The target date of each period at clock t (lines 165-171)
period_target(label, t) ==
    CASE label = "1W" -> today(t - Days(7))
      [] label = "1M" -> today(t - Days(30))
      [] label = "3M" -> today(t - Days(90))
      [] label = "YTD" -> YearStart(today(t))

\* The asset types of the per-type breakdown (line 190)
PerformanceTypes == {"stock", "etf", "crypto", "custom", "cash"}

\* round(num / den, 2) in hundredths, for den > 0: the nearest hundredth,
\* a tie going to the even one
Round2(num, den) ==
    LET a == num * 100
        q == a \div den
        r == a % den
    IN  IF 2 * r < den THEN q
        ELSE IF 2 * r > den THEN q + 1
        ELSE IF q % 2 = 0 THEN q ELSE q + 1

\* value_change with the two snapshots taken the wrong way round
value_change_reversed(curr_val, past_val) == past_val - curr_val

\* current_value - past_value (line 183), curr_val - past_val (line 196)
value_change(curr_val, past_val) == curr_val - past_val

\* round((change / past * 100) if past > 0 else 0, 2), in hundredths of a
\* percent (lines 184-186, 197, 203, 212)
change_percent(change, past_val) ==
    IF past_val > 0 THEN Round2(change * 100, past_val) ELSE 0

\* .get("byAssetType", {}).get(asset_type, {}).get("value", 0)
type_value(snapshot, asset_type) ==
    IF asset_type \in DOMAIN snapshot.byAssetType
    THEN snapshot.byAssetType[asset_type].value
    ELSE 0

\* A period without a past snapshot: result[period_label] = None
NoPeriod == [kind |-> "none"]

\* One pass of the loop over the periods (lines 174-214)
period_performance(file, latest_date, latest, target_date) ==
    LET past_snapshot == get_nearest_snapshot(file, target_date) IN
    IF past_snapshot.kind = "none" THEN NoPeriod
    ELSE
        LET past_value == past_snapshot.snapshot.totalValue
            current_value == latest.totalValue
            total_change == value_change(current_value, past_value)
            by_type ==
                [a \in PerformanceTypes |->
                    LET past_val == type_value(past_snapshot.snapshot, a)
                        curr_val == type_value(latest, a)
                        change == value_change(curr_val, past_val)
                    IN  [previousValue |-> past_val,
                         currentValue |-> curr_val,
                         change |-> change,
                         changePercent |-> change_percent(change, past_val)]]
        IN  [kind |-> "period",
             fromDate |-> past_snapshot.date,
             toDate |-> latest_date,
             previousValue |-> past_value,
             currentValue |-> current_value,
             change |-> total_change,
             changePercent |-> change_percent(total_change, past_value),
             byAssetType |-> by_type]

\* performance_periods that leaves out the periods without a past snapshot
performance_periods_omits_missing(file, t) ==
    LET snaps == load_snapshots(file)
        latest_date == CHOOSE x \in DOMAIN snaps : \A y \in DOMAIN snaps : y <= x
        found == {p \in PeriodLabels :
                     get_nearest_snapshot(file, period_target(p, t)).kind # "none"}
    IN  [p \in found |->
            period_performance(file, latest_date, snaps[latest_date],
                               period_target(p, t))]

\* The result dict of get_performance for a store that holds a snapshot
\* (lines 160-214): latest is the snapshot of the greatest date
performance_periods(file, t) ==
    LET snaps == load_snapshots(file)
        latest_date == CHOOSE x \in DOMAIN snaps : \A y \in DOMAIN snaps : y <= x
    IN  [p \in PeriodLabels |->
            period_performance(file, latest_date, snaps[latest_date],
                               period_target(p, t))]

\* get_performance() at clock t on the file
get_performance(file, t) ==
    LET snaps == load_snapshots(file) IN
    IF DOMAIN snaps = {}
    THEN [periods |-> <<>>, history |-> <<>>]
    ELSE [periods |-> performance_periods(file, t),
          history |-> get_snapshots(file, t, 90)]

\* The store holds the snapshots of some earlier days and no query has been asked
QueryInit ==
    /\ \E day \in QueryTodays :
          /\ now = Days(day)
          /\ \E st \in QueryStores(day) : snapshots = StoreFile(st)
    /\ snapLast = [op |-> "none"]
    /\ CacheIdle /\ FreshIdle /\ SummaryIdle /\ CryptoIdle /\ PortfolioIdle /\ ProcsIdle

\* The targets get_nearest_snapshot is asked about
QueryTargets(day) == {day - o : o \in 0..10}

\* A caller calls get_nearest_snapshot(target_date)
GetNearestSnapshot(target) ==
    /\ snapLast.op = "none"
    /\ snapLast' = [op |-> "nearest", target |-> target,
                    ret |-> get_nearest_snapshot(snapshots, target)]
    /\ UNCHANGED <<cache, now, last, fq, holdings, summary, snapshots,
                 crypto, cryptoLast, portfolio, millis, pfLast, procs>>

\* A caller calls get_performance()
GetPerformance ==
    /\ snapLast.op = "none"
    /\ snapLast' = [op |-> "performance", ret |-> get_performance(snapshots, now)]
    /\ UNCHANGED <<cache, now, last, fq, holdings, summary, snapshots,
                 crypto, cryptoLast, portfolio, millis, pfLast, procs>>

\* The windows get_snapshots is asked for: a week, and the default 90 days
QueryDays == {7, 90}

\* A caller calls get_snapshots(days); snapLast holds the call that has just
\* returned, with the file it found (pre)
GetSnapshots(days) ==
    /\ snapLast.op = "none"
    /\ snapLast' = [op |-> "get_snapshots", days |-> days, pre |-> snapshots,
                    ret |-> get_snapshots(snapshots, now, days)]
    /\ UNCHANGED <<cache, now, last, fq, holdings, summary, snapshots,
                   crypto, cryptoLast, portfolio, millis, pfLast, procs>>

QueryNext ==
    \/ \E target \in QueryTargets(today(now)) : GetNearestSnapshot(target)
    \/ GetPerformance
    \/ \E days \in QueryDays : GetSnapshots(days)

SpecQuery == QueryInit /\ [][QueryNext]_vars

(***************************************************************************)
(* PortfolioSnapshotService: properties of the queries                     *)
(***************************************************************************)
\* The dates of the store that lie in the lookback window of a target date
InLookback(snaps, target) ==
    {d \in DOMAIN snaps : target - (LookbackRange - 1) <= d /\ d <= target}

\* C11: get_nearest_snapshot(target) returns the entry of the latest date
\* among target, target-1, target-2, target-3 that the store holds, and None
\* if the store holds none of them; it never returns a snapshot dated after
\* the target or more than 3 days before it: a snapshot 3 days before the
\* target is found, and one 10 days before is not.
C11_NearestWithinLookback ==
    snapLast.op = "nearest" =>
        LET snaps == load_snapshots(snapshots)
            target == snapLast.target
            ret == snapLast.ret
            window == {target, target - 1, target - 2, target - 3}
        IN  /\ ret.kind = "none" <=> window \cap DOMAIN snaps = {}
            /\ ret.kind = "snapshot" =>
                  /\ ret.date \in window \cap DOMAIN snaps
                  /\ \A d \in window \cap DOMAIN snaps : d <= ret.date
                  /\ ret.date <= target /\ ret.date >= target - 3
                  /\ ret.snapshot = snaps[ret.date]
            /\ DOMAIN snaps = {target - 3} => (ret.kind = "snapshot" /\ ret.date = target - 3)
            /\ DOMAIN snaps = {target - 10} => ret.kind = "none"

\* C11 witness: the store holds snapshots 3 and 10 days before the target
\* alone, and the one 3 days before has been returned
C11_Witness ==
    /\ snapLast.op = "nearest"
    /\ DOMAIN load_snapshots(snapshots) = {snapLast.target - 3, snapLast.target - 10}
    /\ snapLast.ret.kind = "snapshot"
    /\ snapLast.ret.date = snapLast.target - 3

\* C12 as stated: in every state of the store, the empty store included,
\* the periods of get_performance hold an entry for each of 1W, 1M, 3M and
\* YTD, null for a window without a snapshot within the lookback bound.
C12_AllPeriodsAlways ==
    snapLast.op = "performance" =>
        /\ DOMAIN snapLast.ret.periods = PeriodLabels
        /\ \A p \in PeriodLabels :
              InLookback(load_snapshots(snapshots), period_target(p, now)) = {}
                  => snapLast.ret.periods[p] = NoPeriod

\* C12 amended: for a store that holds at least one snapshot, the periods
\* of get_performance hold an entry for each of 1W, 1M, 3M and YTD, and the
\* entry of a window without a snapshot within the lookback bound is null
\* (and only of such a window); for an empty store periods is the empty map
\* and history the empty list.
C12_AllPeriodsUnlessEmpty ==
    snapLast.op = "performance" =>
        LET snaps == load_snapshots(snapshots)
            periods == snapLast.ret.periods
        IN  IF DOMAIN snaps = {}
            THEN DOMAIN periods = {} /\ Len(snapLast.ret.history) = 0
            ELSE /\ DOMAIN periods = PeriodLabels
                 /\ \A p \in PeriodLabels :
                       periods[p] = NoPeriod
                           <=> InLookback(snaps, period_target(p, now)) = {}

\* C12 witness: get_performance has returned, for a store that holds a
\* snapshot, a null 1M window beside a 1W window that is not null
C12_Witness ==
    /\ snapLast.op = "performance"
    /\ DOMAIN load_snapshots(snapshots) # {}
    /\ snapLast.ret.periods["1M"] = NoPeriod
    /\ snapLast.ret.periods["1W"] # NoPeriod

\* The greatest date of a store that holds a snapshot
LatestDate(snaps) == CHOOSE x \in DOMAIN snaps : \A y \in DOMAIN snaps : y <= x

\* The latest date of the store within the lookback window of the target
PastDate(snaps, target) ==
    CHOOSE x \in InLookback(snaps, target) : \A y \in InLookback(snaps, target) : y <= x

\* pct, in hundredths of a percent, is change / past x 100 rounded to two
\* decimals when past > 0, and 0 otherwise
IsChangePercent(pct, change, past) ==
    IF past > 0
    THEN LET err == pct * past - change * 10000
         IN  2 * err <= past /\ -2 * err <= past
    ELSE pct = 0

\* C18: for each window whose nearest snapshot is found, get_performance
\* reports change = latest.totalValue - past.totalValue, latest being the
\* snapshot of the greatest date of the store, and changePercent = change /
\* past.totalValue x 100 (to two decimals) when past.totalValue > 0, else
\* 0; the same change and changePercent are computed for each asset-type
\* bucket from the two snapshots' values of that bucket alone.
C18_ChangePerWindowAndBucket ==
    (snapLast.op = "performance" /\ DOMAIN load_snapshots(snapshots) # {}) =>
        LET snaps == load_snapshots(snapshots)
            latest == snaps[LatestDate(snaps)]
        IN  \A p \in PeriodLabels :
                InLookback(snaps, period_target(p, now)) # {} =>
                    LET r == snapLast.ret.periods[p]
                        past == snaps[PastDate(snaps, period_target(p, now))]
                    IN  /\ r.kind = "period"
                        /\ r.fromDate = PastDate(snaps, period_target(p, now))
                        /\ r.toDate = LatestDate(snaps)
                        /\ r.previousValue = past.totalValue
                        /\ r.currentValue = latest.totalValue
                        /\ r.change = latest.totalValue - past.totalValue
                        /\ IsChangePercent(r.changePercent, r.change, past.totalValue)
                        /\ \A a \in PerformanceTypes :
                              LET b == r.byAssetType[a] IN
                              /\ b.previousValue = past.byAssetType[a].value
                              /\ b.currentValue = latest.byAssetType[a].value
                              /\ b.change = latest.byAssetType[a].value
                                            - past.byAssetType[a].value
                              /\ IsChangePercent(b.changePercent, b.change,
                                                 past.byAssetType[a].value)

\* C18 witness: get_performance has reported a 1W window with a gain on a
\* past value above 0 (a percentage that needed rounding), its stock bucket
\* with a gain, and its cash bucket with a past value of 0 and 0 percent
C18_Witness ==
    /\ snapLast.op = "performance"
    /\ DOMAIN load_snapshots(snapshots) # {}
    /\ snapLast.ret.periods["1W"] # NoPeriod
    /\ snapLast.ret.periods["1W"].previousValue = 1200
    /\ snapLast.ret.periods["1W"].change = 5300
    /\ snapLast.ret.periods["1W"].changePercent = 44167
    /\ snapLast.ret.periods["1W"].byAssetType["stock"].change = 300
    /\ snapLast.ret.periods["1W"].byAssetType["stock"].changePercent = 2500
    /\ snapLast.ret.periods["1W"].byAssetType["cash"].previousValue = 0
    /\ snapLast.ret.periods["1W"].byAssetType["cash"].change = 5000
    /\ snapLast.ret.periods["1W"].byAssetType["cash"].changePercent = 0

(***************************************************************************)
(* CryptoService: the batch price cache (services/crypto_service.py)       *)
(***************************************************************************)
CACHE_TTL_HOURS == 12

\* timedelta(hours=CACHE_TTL_HOURS) in quarter-days
CacheTtl == (CACHE_TTL_HOURS * UnitsPerDay) \div 24

\* The tickers get_prices_batch is asked about, upper-cased already
CryptoTickers == {"BTC", "ETH", "LEDGER"}

\* CRYPTO_ID_MAP, for the tickers of the model; LEDGER is not in it
CRYPTO_ID_MAP == [t \in {"BTC", "ETH"} |-> IF t = "BTC" THEN "bitcoin" ELSE "ethereum"]

\* The usd prices CoinGecko answers with
CryptoPrices == {45, 50}

\* What CoinGecko answers to /simple/price: an error, or for some of the
\* coin ids a usd price
CoinGeckoOutcomes ==
    {[kind |-> "raise"]}
    \cup {[kind |-> "ok", data |-> d] :
             d \in UNION {[C -> CryptoPrices] : C \in SUBSET {"bitcoin", "ethereum"}}}

\* price_data of get_prices_batch (lines 191-198): the fields the portfolio reads
PriceData(ticker, coin_id, usd) ==
    [kind |-> "price", ticker |-> ticker, coinId |-> coin_id, price |-> usd]

\* results[t] = None
NoPrice == [kind |-> "none"]

\* The file prices.json: {"fetchedAt": ..., "prices": {...}}
PricesFile(t, prices) == [kind |-> "ok", fetchedAt |-> t, prices |-> prices]

\* The test of lines 106 and 120: the file parses and its fetchedAt is less
\* than CACHE_TTL_HOURS old
crypto_file_fresh(file, t) ==
    file.kind = "ok" /\ t - file.fetchedAt < CacheTtl

\* CryptoService._read_cache at clock t: the cached prices if the file is
\* fresh, {} if it is missing, unparseable or stale
crypto_read_cache(file, t) ==
    IF crypto_file_fresh(file, t) THEN file.prices ELSE <<>>

\* dict.update: the entries of prices over those of existing
DictUpdate(existing, prices) ==
    [k \in DOMAIN existing \cup DOMAIN prices |->
        IF k \in DOMAIN prices THEN prices[k] ELSE existing[k]]

\* crypto_write_cache without the merge: the file holds the new prices alone
crypto_write_cache_overwrites(file, t, prices) ==
    PricesFile(t, prices)

\* CryptoService._write_cache(prices) at clock t: the fresh file's prices
\* updated with the new ones, under a new fetchedAt
crypto_write_cache(file, t, prices) ==
    LET existing == IF crypto_file_fresh(file, t) THEN file.prices ELSE <<>>
    IN  PricesFile(t, DictUpdate(existing, prices))

\* get_prices_batch(tickers, force_refresh) at clock t, given what CoinGecko
\* would answer: the results and the file afterwards
get_prices_batch(file, t, tickers, force_refresh, upstream) ==
    LET cached == IF force_refresh THEN <<>> ELSE crypto_read_cache(file, t)
        from_cache == tickers \cap DOMAIN cached
        tickers_to_fetch == tickers \ DOMAIN cached
        coin_ids == [x \in tickers_to_fetch \cap DOMAIN CRYPTO_ID_MAP |-> CRYPTO_ID_MAP[x]]
        answered == IF upstream.kind = "ok"
                    THEN {x \in DOMAIN coin_ids : coin_ids[x] \in DOMAIN upstream.data}
                    ELSE {}
        fresh_prices == [x \in answered |->
                            PriceData(x, coin_ids[x], upstream.data[coin_ids[x]])]
        results == [x \in tickers |->
                       IF x \in from_cache THEN cached[x]
                       ELSE IF x \in answered THEN fresh_prices[x]
                       ELSE NoPrice]
    IN  [results |-> results,
         requested |-> tickers_to_fetch # {} /\ DOMAIN coin_ids # {},
         wrote |-> answered,
         file |-> IF answered # {} THEN crypto_write_cache(file, t, fresh_prices)
                  ELSE file]

\* CryptoService.__init__: the cache directory holds no prices.json
CryptoInit ==
    /\ crypto = Absent
    /\ cryptoLast = [op |-> "none"]
    /\ now = 0
    /\ CacheIdle /\ FreshIdle /\ SummaryIdle /\ SnapIdle /\ PortfolioIdle /\ ProcsIdle

\* A caller awaits get_prices_batch(tickers, force_refresh); cryptoLast holds
\* the call that has just returned, with the file it found (pre)
GetPricesBatch(tickers, force_refresh, upstream) ==
    LET r == get_prices_batch(crypto, now, tickers, force_refresh, upstream) IN
    /\ crypto' = r.file
    /\ cryptoLast' = [op |-> "batch", tickers |-> tickers, force |-> force_refresh,
                      pre |-> crypto, results |-> r.results,
                      requested |-> r.requested, wrote |-> r.wrote]
    /\ UNCHANGED <<cache, now, last, fq, holdings, summary, snapshots, snapLast,
                   portfolio, millis, pfLast, procs>>

\* Wall-clock time passes
CryptoTick ==
    /\ now < MaxNow
    /\ now' = now + 1
    /\ cryptoLast' = [op |-> "none"]
    /\ UNCHANGED <<cache, last, fq, holdings, summary, snapshots, snapLast,
                   crypto, portfolio, millis, pfLast, procs>>

\* prices.json becomes unparseable (a write cut short, a damaged disk)
CorruptPrices ==
    /\ crypto.kind = "ok"
    /\ crypto' = Corrupt
    /\ cryptoLast' = [op |-> "none"]
    /\ UNCHANGED <<cache, now, last, fq, holdings, summary, snapshots, snapLast,
                   portfolio, millis, pfLast, procs>>

CryptoNext ==
    \/ \E tickers \in SUBSET CryptoTickers, f \in BOOLEAN, u \in CoinGeckoOutcomes :
          tickers # {} /\ GetPricesBatch(tickers, f, u)
    \/ CryptoTick
    \/ CorruptPrices

SpecCrypto == CryptoInit /\ [][CryptoNext]_vars

(***************************************************************************)
(* CryptoService: properties of the batch price cache                      *)
(***************************************************************************)
\* The call that has just returned wrote fresh prices to prices.json
LastBatchWrote == cryptoLast.op = "batch" /\ cryptoLast.wrote # {}

\* C13 as stated: writing the price of ticker A to the batch cache and then
\* separately writing the price of ticker B leaves A retrievable: after the
\* second write the stored prices hold both, A's with its value unaltered.
C13_EarlierPriceKept ==
    (LastBatchWrote /\ cryptoLast.pre.kind = "ok") =>
        /\ cryptoLast.wrote \subseteq DOMAIN crypto.prices
        /\ \A a \in DOMAIN cryptoLast.pre.prices \ cryptoLast.wrote :
              /\ a \in DOMAIN crypto.prices
              /\ crypto.prices[a] = cryptoLast.pre.prices[a]

\* C13 amended: a write of the price of B made while the file is fresh
\* (less than 12 hours after the write that stored A) leaves A retrievable:
\* the stored prices hold both, A's with its value unaltered, and
\* _read_cache returns both; a write onto a file that is missing, unparseable
\* or 12 hours old or more stores the new prices alone.
C13_EarlierPriceKeptWhileFresh ==
    LastBatchWrote =>
        /\ crypto.kind = "ok" /\ crypto.fetchedAt = now
        /\ cryptoLast.wrote \subseteq DOMAIN crypto.prices
        /\ \A b \in cryptoLast.wrote : crypto.prices[b] = cryptoLast.results[b]
        /\ IF cryptoLast.pre.kind = "ok" /\ now - cryptoLast.pre.fetchedAt < CacheTtl
           THEN /\ DOMAIN crypto.prices = DOMAIN cryptoLast.pre.prices \cup cryptoLast.wrote
                /\ \A a \in DOMAIN cryptoLast.pre.prices \ cryptoLast.wrote :
                      /\ crypto.prices[a] = cryptoLast.pre.prices[a]
                      /\ crypto_read_cache(crypto, now)[a] = cryptoLast.pre.prices[a]
           ELSE DOMAIN crypto.prices = cryptoLast.wrote

\* C13 witness: the price of ETH has just been written to a file that held
\* the price of BTC alone, written earlier, and the file holds both
C13_Witness ==
    /\ LastBatchWrote
    /\ cryptoLast.wrote = {"ETH"}
    /\ cryptoLast.pre.kind = "ok"
    /\ DOMAIN cryptoLast.pre.prices = {"BTC"}
    /\ cryptoLast.pre.fetchedAt < now
    /\ DOMAIN crypto.prices = {"BTC", "ETH"}
    /\ crypto.prices["BTC"] = cryptoLast.pre.prices["BTC"]

(***************************************************************************)
(* FMPCache: the freshness window of a resource name with a dynamic suffix *)
(*                                                                         *)
(* The callers (routes/financials.py) and the tests (TestFMPCacheTTL) use  *)
(* FMPCache._get_ttl_days and market-wide resources, which fmp_cache.py    *)
(* as it stands here does not hold; they are modelled from the             *)
(* specification: the lookup strips the suffix and uses the base policy.   *)
(***************************************************************************)
\* The resource names the lookup is asked about
TtlEndpoints ==
    {"profile", "income_quarterly", "analyst_estimates", "product_segments",
     "price_history", "price_history_30d", "price_history_365d",
     "market_earnings_calendar_7d", "unknown_endpoint"}

\* A resource name without its dynamic suffix (the lookback window "_<N>d")
base_endpoint(endpoint) ==
    CASE endpoint \in {"price_history_30d", "price_history_365d"} -> "price_history"
      [] endpoint = "market_earnings_calendar_7d" -> "market_earnings_calendar"
      [] OTHER -> endpoint

\* The narrower policy of the market-wide resources: 0.25 day
MarketEndpoints == {"market_earnings_calendar"}

\* _get_ttl_days(endpoint), in quarter-days: the policy of the base name
get_ttl_days(endpoint) ==
    LET base == base_endpoint(endpoint) IN
    IF base \in MarketEndpoints THEN 1 ELSE TTL_DAYS(base)

\* An entry fetched at time 0 is about to be looked up
TtlInit ==
    /\ now \in 0..MaxAge
    /\ \E e \in TtlEndpoints :
          fq = [done |-> FALSE, cached |-> Entry("AAPL", e, 0, "p1"), endpoint |-> e,
                result |-> FALSE, ttl |-> 0]
    /\ CacheIdle /\ SummaryIdle /\ SnapIdle /\ CryptoIdle /\ PortfolioIdle /\ ProcsIdle

\* The freshness window of the entry's resource is looked up and the entry's
\* age compared with it
GetTtlDays ==
    /\ ~fq.done
    /\ fq' = [fq EXCEPT !.done = TRUE,
                        !.ttl = get_ttl_days(fq.endpoint),
                        !.result = now < fq.cached.fetched_at + get_ttl_days(fq.endpoint)]
    /\ UNCHANGED <<cache, now, last, holdings, summary, snapshots, snapLast,
                   crypto, cryptoLast, portfolio, millis, pfLast, procs>>

TtlNext == GetTtlDays

SpecTtl == TtlInit /\ [][TtlNext]_vars

MaxAmount == 3

\* The holdings enriched on their own: every quantity and cost basis up to
\* MaxAmount, 0 included
EnrichInputs ==
    [assetType : {"stock", "crypto"}, quantity : 0..MaxAmount, costBasis : 0..MaxAmount]

\* The prices they are enriched with: none, or a price from 0 upwards
EnrichPrices == {NoneNum} \cup {Some(v) : v \in 0..(MaxAmount + 1)}

\* No holding has been enriched yet
EnrichInit ==
    /\ holdings = <<>>
    /\ summary = [done |-> FALSE]
    /\ now = 0
    /\ CacheIdle /\ FreshIdle /\ SnapIdle /\ CryptoIdle /\ PortfolioIdle /\ ProcsIdle

\* get_portfolio enriches the holding with enrich_holding, take_snapshot with
\* _enrich_for_snapshot: holdings holds the one result, then the other
EnrichBoth(raw, price) ==
    /\ holdings = <<>>
    /\ holdings' = <<enrich_holding(raw, price), enrich_for_snapshot(raw, price)>>
    /\ UNCHANGED <<cache, now, last, fq, summary, snapshots, snapLast,
                   crypto, cryptoLast, portfolio, millis, pfLast, procs>>

EnrichNext == \E raw \in EnrichInputs, price \in EnrichPrices : EnrichBoth(raw, price)

SpecEnrich == EnrichInit /\ [][EnrichNext]_vars

\* C16: enrichment of a holding whose price is unknown yields currentValue,
\* gainLoss and gainLossPercent all null (never 0) while totalCost =
\* quantity x costBasis is still set; when the price is known (0 included),
\* currentValue = quantity x price, gainLoss = currentValue - totalCost, and
\* gainLossPercent = gainLoss / totalCost x 100 if totalCost > 0, else 0.
C16_EnrichNullOrComputed ==
    \A i \in 1..Len(holdings) :
        LET h == holdings[i] IN
        /\ h.totalCost = h.quantity * h.costBasis
        /\ IF h.currentPrice = <<>>
           THEN /\ h.currentValue = <<>> /\ h.gainLoss = <<>> /\ h.gainLossPercent = <<>>
                /\ h.currentValue # <<0>> /\ h.gainLoss # <<0>>
           ELSE /\ h.currentValue = <<h.quantity * h.currentPrice[1]>>
                /\ h.gainLoss = <<h.currentValue[1] - h.totalCost>>
                /\ Len(h.gainLossPercent) = 1
                /\ IF h.totalCost > 0
                   THEN h.gainLossPercent[1].num * h.totalCost
                            = h.gainLoss[1] * 100 * h.gainLossPercent[1].den
                   ELSE h.gainLossPercent[1].num = 0

\* C16 witness: both enrichments have left a holding of cost 6 without a
\* price with null pricing fields
C16_Witness ==
    /\ Len(holdings) = 2
    /\ \A i \in 1..2 :
          /\ holdings[i].totalCost = 6
          /\ holdings[i].currentPrice = <<>>
          /\ holdings[i].currentValue = <<>>
          /\ holdings[i].gainLossPercent = <<>>

(***************************************************************************)
(* Valuation: the asset types of calculate_summary                         *)
(***************************************************************************)
\* The number of option holdings of the list
OptionCount(hs) == Cardinality({i \in 1..Len(hs) : hs[i].assetType = "option"})

\* The sum of totalCost of the option holdings of the list
OptionCost(hs) ==
    SumTo([i \in 1..Len(hs) |->
              IF hs[i].assetType = "option" THEN hs[i].totalCost ELSE 0], Len(hs))

\* The sum of the known currentValue of the option holdings of the list
OptionValue(hs) ==
    SumTo([i \in 1..Len(hs) |->
              IF hs[i].assetType = "option" /\ ~IsNone(hs[i].currentValue)
              THEN Val(hs[i].currentValue) ELSE 0], Len(hs))

\* C17: calculate_summary returns a byAssetType bucket for each of stock,
\* etf, crypto, custom, cash and option (all with count 0 for an empty
\* list); an option holding increments the option bucket's count, value and
\* cost, and its cost is included in totalCost (only cash is excluded).
C17_OptionBucket ==
    summary.done =>
        LET s == summary.s IN
        /\ {"stock", "etf", "crypto", "custom", "cash", "option"}
              \subseteq DOMAIN s.byAssetType
        /\ holdings = <<>> => \A a \in DOMAIN s.byAssetType : s.byAssetType[a].count = 0
        /\ s.byAssetType["option"].count = OptionCount(holdings)
        /\ s.byAssetType["option"].cost = OptionCost(holdings)
        /\ s.byAssetType["option"].value = OptionValue(holdings)
        /\ s.totalCost = NonCashCost(holdings)

(***************************************************************************)
(* FMPCache: properties of clear_cache                                     *)
(***************************************************************************)
\* C19: clear_cache(symbol, resource) removes exactly that entry and leaves
\* every other entry (the symbol's other resources and all other symbols)
\* as it was; clear_cache(symbol) removes every entry of that symbol and no
\* entry of another symbol; clear_cache() removes every entry while the
\* cache stays usable (a later get fetches, stores and returns); clearing an
\* entry that does not exist changes nothing and does not raise.
C19_ClearExactly ==
    last.op = "clear" =>
        LET key == get_file_path(last.symbol, last.endpoint) IN
        /\ last.raised = "none"
        /\ (last.symbol # NoArg /\ last.endpoint # NoArg) =>
              /\ cache[key] = Absent
              /\ \A k \in Keys \ {key} : cache[k] = last.before[k]
              /\ last.before[key] = Absent => cache = last.before
        /\ (last.symbol # NoArg /\ last.endpoint = NoArg) =>
              /\ \A k \in Keys : k[1] = Upper(last.symbol) => cache[k] = Absent
              /\ \A k \in Keys : k[1] # Upper(last.symbol) => cache[k] = last.before[k]
        /\ (last.symbol = NoArg /\ last.endpoint = NoArg) =>
              /\ \A k \in Keys : cache[k] = Absent
              /\ \A s \in Symbols, e \in Endpoints \cap MappedEndpoints :
                    LET r == get(cache, now, e, s, FALSE, "p1") IN
                    /\ r.raised = "none" /\ r.ret = "p1"
                    /\ r.cache[get_file_path(s, e)] = Entry(Upper(s), e, now, "p1")

\* C19 witness: clear_cache("aapl", "profile") has just removed the profile
\* of AAPL while the profile of MSFT stays in the store
C19_Witness ==
    /\ last.op = "clear"
    /\ last.symbol = "aapl" /\ last.endpoint = "profile"
    /\ last.before[<<"AAPL", "profile">>].kind = "entry"
    /\ cache[<<"AAPL", "profile">>] = Absent
    /\ cache[<<"MSFT", "profile">>].kind = "entry"

(***************************************************************************)
(* PortfolioService (services/portfolio_service.py) and the route          *)
(* get_portfolio (routes/portfolio.py)                                     *)
(*                                                                         *)
(* portfolio.json is the sequence of its holdings in the order of the      *)
(* dict; addedAt is the rank of its datetime.now() among those of the      *)
(* store (the clock is read once per add and never goes back).             *)
(***************************************************************************)
\* Most add calls the portfolio model makes
MaxAdds == 2

\* The tickers of the model that KNOWN_CRYPTOS holds
KNOWN_CRYPTOS == {"BTC", "ETH"}

\* The tickers of the model that KNOWN_ETFS holds
KNOWN_ETFS == {"SPY"}

\* categorize_ticker(ticker)
categorize_ticker(ticker) ==
    IF Upper(ticker) \in KNOWN_CRYPTOS THEN "crypto"
    ELSE IF Upper(ticker) \in KNOWN_ETFS THEN "etf"
    ELSE "stock"

\* The arguments add is called with; asset_type is left out for some
AddInputs ==
    {[ticker |-> "aapl", quantity |-> 10, costBasis |-> 100, assetType |-> NoArg],
     [ticker |-> "MSFT", quantity |-> 5, costBasis |-> 350, assetType |-> "option"],
     [ticker |-> "BTC", quantity |-> 2, costBasis |-> 40, assetType |-> NoArg],
     [ticker |-> "HOUSE", quantity |-> 1, costBasis |-> 17000, assetType |-> "custom"],
     [ticker |-> "CASH", quantity |-> 1, costBasis |-> 5000, assetType |-> "cash"]}

\* _generate_id at the millisecond ms: f"h_{int(time.time() * 1000)}"
generate_id(ms) == ms

\* The ids of the holdings of the store
StoreIds(store) == {store[i].id : i \in 1..Len(store)}

\* datetime.now().isoformat() of a new holding: later than every addedAt of the store
next_added_at(store) ==
    IF store = <<>> THEN 1
    ELSE 1 + (CHOOSE m \in {store[i].addedAt : i \in 1..Len(store)} :
                 \A i \in 1..Len(store) : store[i].addedAt <= m)

\* portfolio["holdings"][holding_id] = holding: the holding takes the place
\* of the one of that id, or comes last
StoreSet(store, holding) ==
    IF holding.id \in StoreIds(store)
    THEN [i \in 1..Len(store) |-> IF store[i].id = holding.id THEN holding ELSE store[i]]
    ELSE Append(store, holding)

\* PortfolioService.add at the millisecond ms: the holding it returns and
\* the store afterwards
add(store, ms, ticker, quantity, cost_basis, account_name, asset_type) ==
    LET holding == [id |-> generate_id(ms),
                    ticker |-> Upper(ticker),
                    quantity |-> quantity,
                    costBasis |-> cost_basis,
                    accountName |-> account_name,
                    assetType |-> IF asset_type = NoArg THEN categorize_ticker(Upper(ticker))
                                  ELSE asset_type,
                    addedAt |-> next_added_at(store)]
    IN  [ret |-> holding, file |-> StoreSet(store, holding)]

RECURSIVE sort_added_desc(_)
\* holdings.sort(key=addedAt, reverse=True) of a set of holdings
sort_added_desc(S) ==
    IF S = {} THEN <<>>
    ELSE LET h == CHOOSE x \in S : \A y \in S : y.addedAt <= x.addedAt
         IN  <<h>> \o sort_added_desc(S \ {h})

\* PortfolioService.get_all(): the holdings by addedAt, latest first
get_all(store) == sort_added_desc({store[i] : i \in 1..Len(store)})

\* profile.get("price") if profile else None, for the payloads of the model:
\* JSON null, an empty or error dict hold no price
profile_price(profile) ==
    CASE profile = "p1" -> Some(120)
      [] profile = "p2" -> Some(150)
      [] OTHER -> NoneNum

\* What the upstream answers for the profile of each ticker during one request
PortfolioApiOutcomes == {"raise", "None", "p1"}

\* What CoinGecko answers during one request
PortfolioCoinOutcomes ==
    {[kind |-> "raise"],
     [kind |-> "ok", data |-> <<>>],
     [kind |-> "ok", data |-> [c \in {"bitcoin"} |-> 45]]}

IsCrypto(h) == h.assetType = "crypto"
IsCustom(h) == h.assetType = "custom"
IsStockEtf(h) == h.assetType \notin {"crypto", "custom", "cash"}
IsNamedStockEtf(h) == h.assetType \in {"stock", "etf"}

\* stock_etf_holdings that takes the holdings typed "stock" or "etf" alone
stock_etf_holdings_by_name(hs) == SelectSeq(hs, IsNamedStockEtf)

\* stock_etf_holdings (line 135): the holdings of every type but crypto,
\* custom and cash
stock_etf_holdings(hs) == SelectSeq(hs, IsStockEtf)

\* fetch_stock_price(holding) (lines 141-153), the cache being c at clock t
\* and apis what the upstream would answer for each ticker
fetch_stock_price(holding, c, t, apis) ==
    LET r == get(c, t, "profile", holding.ticker, FALSE, apis[holding.ticker]) IN
    IF r.raised # "none"
    THEN enrich_holding(holding, NoneNum)
    ELSE enrich_holding(holding, profile_price(r.ret))

\* enrich_crypto_holding(holding) (lines 161-165)
enrich_crypto_holding(holding, crypto_prices) ==
    LET ticker == holding.ticker
        price_data == IF ticker \in DOMAIN crypto_prices THEN crypto_prices[ticker]
                      ELSE NoPrice
        price == IF price_data.kind = "price" THEN Some(price_data.price) ELSE NoneNum
    IN  enrich_holding(holding, price)

\* [f(hs[1]), ..., f(hs[n])] with the holding's own cost basis as its price
\* (lines 206-213)
enrich_at_cost(hs) ==
    [i \in 1..Len(hs) |-> enrich_holding(hs[i], Some(hs[i].costBasis))]

\* get_portfolio() at clock t on the store, the cache c and the price file
\* cf, given what the upstreams would answer: the response, and the cache
\* and the price file afterwards. The fetch_stock_price tasks of
\* asyncio.gather all read the cache before any of them writes it.
get_portfolio(store, c, cf, t, apis, upstream) ==
    LET hs == get_all(store)
        crypto_holdings == SelectSeq(hs, IsCrypto)
        custom_holdings == SelectSeq(hs, IsCustom)
        cash_holdings == SelectSeq(hs, IsCash)
        stock_etf == stock_etf_holdings(hs)
        batch == get_prices_batch(cf, t,
                     {crypto_holdings[i].ticker : i \in 1..Len(crypto_holdings)},
                     FALSE, upstream)
        crypto_prices == IF crypto_holdings # <<>> THEN batch.results ELSE <<>>
        stock_etf_results ==
            [i \in 1..Len(stock_etf) |-> fetch_stock_price(stock_etf[i], c, t, apis)]
        crypto_results ==
            [i \in 1..Len(crypto_holdings) |->
                enrich_crypto_holding(crypto_holdings[i], crypto_prices)]
        enriched_holdings == stock_etf_results \o crypto_results
                             \o enrich_at_cost(custom_holdings)
                             \o enrich_at_cost(cash_holdings)
        fetched == {stock_etf[i].ticker : i \in 1..Len(stock_etf)}
    IN  IF hs = <<>>
        THEN [ret |-> [holdings |-> <<>>, summary |-> EmptySummary, count |-> 0],
              cache |-> c, crypto |-> cf]
        ELSE [ret |-> [holdings |-> enriched_holdings,
                       summary |-> calculate_summary(enriched_holdings),
                       count |-> Len(enriched_holdings)],
              cache |-> [k \in Keys |->
                            IF k[2] = "profile" /\ k[1] \in fetched
                            THEN get(c, t, "profile", k[1], FALSE, apis[k[1]]).cache[k]
                            ELSE c[k]],
              crypto |-> IF crypto_holdings # <<>> THEN batch.file ELSE cf]

\* PortfolioService.__init__ on an empty data directory: {"holdings": {}};
\* the caches are empty
PortfolioInit ==
    /\ portfolio = <<>>
    /\ millis = 0
    /\ pfLast = [op |-> "none"]
    /\ now = 0
    /\ CacheIdle /\ FreshIdle /\ SummaryIdle /\ SnapIdle /\ CryptoIdle /\ ProcsIdle

\* A caller calls portfolio_service.add(...); pfLast holds the call that
\* has just returned, with the store it found (pre)
Add(input) ==
    LET r == add(portfolio, millis, input.ticker, input.quantity, input.costBasis,
                 "Fidelity", input.assetType)
    IN  /\ next_added_at(portfolio) <= MaxAdds
        /\ portfolio' = r.file
        /\ pfLast' = [op |-> "add", pre |-> portfolio, ret |-> r.ret]
        /\ UNCHANGED <<cache, now, last, fq, holdings, summary, snapshots, snapLast,
                       crypto, cryptoLast, millis, procs>>

\* The clock reaches the next millisecond (of interest once an add has used
\* the current one)
MilliTick ==
    /\ millis \in StoreIds(portfolio)
    /\ millis' = millis + 1
    /\ pfLast' = [op |-> "none"]
    /\ UNCHANGED <<cache, now, last, fq, holdings, summary, snapshots, snapLast,
                   crypto, cryptoLast, portfolio, procs>>

\* A client requests GET /portfolio; pfLast holds the request that has just
\* been answered, with the cache and the price file it found
GetPortfolio(apis, upstream) ==
    LET r == get_portfolio(portfolio, cache, crypto, now, apis, upstream) IN
    /\ cache' = r.cache
    /\ crypto' = r.crypto
    /\ pfLast' = [op |-> "get_portfolio", apis |-> apis, upstream |-> upstream,
                  c0 |-> cache, cf0 |-> crypto, ret |-> r.ret]
    /\ UNCHANGED <<now, last, fq, holdings, summary, snapshots, snapLast,
                   cryptoLast, portfolio, millis, procs>>

\* The tickers of the store whose price get_portfolio asks the profile for
StockTickers(store) ==
    {store[i].ticker : i \in {j \in 1..Len(store) : IsStockEtf(store[j])}}

\* The store holds a crypto holding
HasCrypto(store) == \E i \in 1..Len(store) : IsCrypto(store[i])

\* The answers of the upstreams that a request on the store can meet: one
\* per ticker it asks the profile of (the others are not asked and are
\* written down as "raise"), and one of CoinGecko if it holds crypto
RequestApis(store) ==
    {apis \in [UpperSymbols -> PortfolioApiOutcomes] :
        \A s \in UpperSymbols \ StockTickers(store) : apis[s] = "raise"}

RequestCoinOutcomes(store) ==
    IF HasCrypto(store) THEN PortfolioCoinOutcomes ELSE {[kind |-> "raise"]}

PortfolioNext ==
    \/ \E input \in AddInputs : Add(input)
    \/ MilliTick
    \/ \E apis \in RequestApis(portfolio),
          upstream \in RequestCoinOutcomes(portfolio) : GetPortfolio(apis, upstream)

SpecPortfolio == PortfolioInit /\ [][PortfolioNext]_vars

(***************************************************************************)
(* PortfolioService: properties of add                                     *)
(***************************************************************************)
\* The number of add calls made so far: each add stamps its holding with the
\* next addedAt, and no holding is removed
AddsMade == next_added_at(portfolio) - 1

\* C20: every PortfolioService.add creates a holding whose id differs from
\* every id already in the store and overwrites no existing holding, so
\* after n adds and no removes the store holds exactly n holdings, however
\* close in time the adds are issued.
C20_AddNeverCollides ==
    /\ Len(portfolio) = AddsMade
    /\ pfLast.op = "add" =>
          /\ pfLast.ret.id \notin StoreIds(pfLast.pre)
          /\ Len(portfolio) = Len(pfLast.pre) + 1
          /\ \A i \in 1..Len(pfLast.pre) : portfolio[i] = pfLast.pre[i]

(***************************************************************************)
(* get_portfolio: properties of the enrichment                             *)
(***************************************************************************)
\* The enriched holding of the response for the stored holding of that id
EnrichedOf(ret, id) ==
    ret.holdings[CHOOSE i \in 1..Len(ret.holdings) : ret.holdings[i].id = id]

\* The price lookup of the stored holding h failed or returned no data
\* during the request pfLast: the profile of a stock, ETF or other priced
\* type, the CoinGecko batch of a crypto holding
LookupFailed(h) ==
    IF IsStockEtf(h)
    THEN LET r == get(pfLast.c0, now, "profile", h.ticker, FALSE, pfLast.apis[h.ticker])
         IN  r.raised # "none" \/ profile_price(r.ret) = NoneNum
    ELSE IF IsCrypto(h)
    THEN LET b == get_prices_batch(pfLast.cf0, now, {h.ticker}, FALSE, pfLast.upstream)
         IN  h.ticker \notin DOMAIN b.results \/ b.results[h.ticker].kind # "price"
    ELSE FALSE

\* The answers of the upstreams that are the same for the lookup of h as
\* during the request pfLast, whatever the other lookups meet
SameLookup(h, apis, upstream) ==
    /\ IsStockEtf(h) => apis[h.ticker] = pfLast.apis[h.ticker]
    /\ IsCrypto(h) => upstream = pfLast.upstream

\* C15: for any set of holdings and any subset of price lookups that fail or
\* return no data, get_portfolio still returns exactly one enriched holding
\* per stored holding (count = number of holdings): a failed lookup leaves
\* only that holding's pricing fields (currentPrice, currentValue, gainLoss,
\* gainLossPercent) null and does not change the enrichment of any other
\* holding.
C15_OneEnrichedPerHolding ==
    pfLast.op = "get_portfolio" =>
        LET ret == pfLast.ret IN
        /\ ret.count = Len(portfolio)
        /\ Len(ret.holdings) = Len(portfolio)
        /\ \A k \in 1..Len(portfolio) :
              LET h == portfolio[k]
                  e == EnrichedOf(ret, h.id)
              IN  /\ Cardinality({i \in 1..Len(ret.holdings) :
                                     ret.holdings[i].id = h.id}) = 1
                  /\ \A f \in DOMAIN h : e[f] = h[f]
                  /\ e.totalCost = h.quantity * h.costBasis
                  /\ IF LookupFailed(h)
                     THEN /\ e.currentPrice = <<>> /\ e.currentValue = <<>>
                          /\ e.gainLoss = <<>> /\ e.gainLossPercent = <<>>
                     ELSE /\ e.currentPrice # <<>>
                          /\ e.currentValue = <<h.quantity * e.currentPrice[1]>>
                          /\ e.gainLoss = <<e.currentValue[1] - e.totalCost>>
                  /\ \A apis \in [UpperSymbols -> PortfolioApiOutcomes],
                        upstream \in PortfolioCoinOutcomes :
                        SameLookup(h, apis, upstream) =>
                            EnrichedOf(get_portfolio(portfolio, pfLast.c0, pfLast.cf0, now,
                                                     apis, upstream).ret, h.id) = e

\* C15 witness: a request has met a failing profile lookup for AAPL and a
\* price of 120 for the MSFT option holding: both holdings are returned, AAPL
\* without pricing fields, MSFT valued 5 x 120
C15_Witness ==
    /\ pfLast.op = "get_portfolio"
    /\ pfLast.ret.count = 2
    /\ \E i, j \in 1..Len(pfLast.ret.holdings) :
          /\ pfLast.ret.holdings[i].ticker = "AAPL"
          /\ pfLast.ret.holdings[i].currentPrice = <<>>
          /\ pfLast.ret.holdings[i].gainLoss = <<>>
          /\ pfLast.ret.holdings[i].totalCost = 1000
          /\ pfLast.ret.holdings[j].ticker = "MSFT"
          /\ pfLast.ret.holdings[j].assetType = "option"
          /\ pfLast.ret.holdings[j].currentValue = <<600>>
          /\ pfLast.ret.holdings[j].gainLoss = <<600 - 1750>>

(***************************************************************************)
(* FMPCache: the frame of get and force_refresh                            *)
(***************************************************************************)
\* C21: a FMPCache.get(resource, symbol) call writes at most the single
\* entry keyed by (uppercased symbol, resource); the entries under every
\* other key are left unchanged, whether the fetch succeeds or fails.
C21_GetWritesOwnKeyOnly ==
    [][last'.op = "get" =>
          \A k \in Keys \ {get_file_path(last'.symbol, last'.endpoint)} :
              cache'[k] = cache[k]]_vars

\* C21 witness: a get("profile", "aapl") has just written the entry of
\* (AAPL, profile) while the older entries of (MSFT, profile) and
\* (AAPL, search) are in the store
C21_Witness ==
    /\ last.op = "get" /\ last.symbol = "aapl" /\ last.endpoint = "profile"
    /\ last.fetched /\ last.api = "p2"
    /\ cache[<<"AAPL", "profile">>].kind = "entry"
    /\ cache[<<"AAPL", "profile">>].fetched_at = now
    /\ cache[<<"MSFT", "profile">>].kind = "entry"
    /\ cache[<<"MSFT", "profile">>].fetched_at < now
    /\ cache[<<"MSFT", "profile">>].data = "p1"

\* The call that has just returned had force_refresh = true
LastForced == last.op = "get" /\ last.force

\* C28 as stated: get with force_refresh = true invokes the fetcher even
\* when a fresh entry exists for the key, and on fetcher success the entry
\* is replaced by the newly fetched payload, which is what get returns.
C28_ForceReplacesOnEverySuccess ==
    LastForced =>
        /\ last.fetched /\ ~last.hit
        /\ LastFetchSucceeded =>
              /\ last.ret = last.api
              /\ cache[LastKey] = Entry(Upper(last.symbol), last.endpoint, now, last.api)

\* C28 amended: get with force_refresh = true invokes the fetcher even when
\* a fresh entry exists for the key; when the fetcher returns a valid
\* payload (not None, not an error dict) the entry is replaced by it, and
\* when it returns None or an error dict the entry stays as it was; in both
\* cases get returns what the fetcher returned.
C28_ForceReplacesOnValidSuccess ==
    LastForced =>
        /\ last.fetched /\ ~last.hit
        /\ LastFetchSucceeded =>
              /\ last.raised = "none"
              /\ last.ret = last.api
              /\ cache[LastKey] = IF is_valid_data(last.api)
                                  THEN Entry(Upper(last.symbol), last.endpoint, now, last.api)
                                  ELSE last.pre

\* C28 witness: a forced get has just replaced a fresh entry holding p1 by
\* the payload p2 it fetched
C28_Witness ==
    /\ LastForced
    /\ last.pre.kind = "entry" /\ last.pre.data = "p1"
    /\ is_fresh(last.pre, last.endpoint, now)
    /\ last.api = "p2" /\ last.ret = "p2"
    /\ cache[LastKey].data = "p2"

(***************************************************************************)
(* PortfolioSnapshotService: properties of get_snapshots                   *)
(***************************************************************************)
\* C23: get_snapshots(days) returns exactly the snapshots whose date is on
\* or after (today - days), each exactly once, sorted ascending by date, and
\* does not modify the store.
C23_SnapshotsInWindow ==
    snapLast.op = "get_snapshots" =>
        LET snaps == load_snapshots(snapLast.pre)
            ret == snapLast.ret
            inside == {d \in DOMAIN snaps : d >= today(now) - snapLast.days}
        IN  /\ {ret[i].date : i \in 1..Len(ret)} = inside
            /\ Len(ret) = Cardinality(inside)
            /\ \A i \in 1..Len(ret) : ret[i].snapshot = snaps[ret[i].date]
            /\ \A i, j \in 1..Len(ret) : i < j => ret[i].date < ret[j].date
            /\ snapshots = snapLast.pre

\* C23 witness: get_snapshots(7) has returned the snapshot taken 7 days ago
\* and left out the one taken 10 days ago
C23_Witness ==
    /\ snapLast.op = "get_snapshots" /\ snapLast.days = 7
    /\ DOMAIN load_snapshots(snapshots) = {today(now) - 7, today(now) - 10}
    /\ Len(snapLast.ret) = 1
    /\ snapLast.ret[1].date = today(now) - 7

(***************************************************************************)
(* PortfolioSnapshotService: the asset types of save_snapshot              *)
(***************************************************************************)
\* bucket.get(field, 0) of the summary's bucket of an asset type
SummaryBucket(sm, a) ==
    IF a \in DOMAIN sm.byAssetType
    THEN [value |-> sm.byAssetType[a].value, cost |-> sm.byAssetType[a].cost,
          gainLoss |-> sm.byAssetType[a].gainLoss, count |-> sm.byAssetType[a].count]
    ELSE [value |-> 0, cost |-> 0, gainLoss |-> 0, count |-> 0]

\* C24: save_snapshot stores a byAssetType bucket for each of stock, etf,
\* crypto, custom, cash and option, each holding the value, cost, gainLoss
\* and count of the corresponding bucket of the given summary (0 where the
\* summary lacks it).
C24_SnapshotOptionBucket ==
    (snapLast.op = "save" /\ ~snapLast.ret.alreadyExists) =>
        LET stored == load_snapshots(snapshots)[today(now)].byAssetType IN
        \A a \in {"stock", "etf", "crypto", "custom", "cash", "option"} :
            /\ a \in DOMAIN stored
            /\ stored[a] = SummaryBucket(snapLast.summary, a)

(***************************************************************************)
(* PortfolioSnapshotService: an unparseable snapshots.json                 *)
(***************************************************************************)
\* C25: an unparseable snapshot document is treated as an empty store and
\* never raises to the caller: has_today_snapshot returns false,
\* get_performance returns empty periods and history, and the next
\* save_snapshot writes a valid document that contains today's entry.
C25_UnparseableAsEmpty ==
    /\ snapshots.kind = "corrupt" =>
          /\ load_snapshots(snapshots) = <<>>
          /\ ~has_today_snapshot(snapshots, now)
          /\ snapLast.op = "has_today" => ~snapLast.ret
          /\ get_performance(snapshots, now) = [periods |-> <<>>, history |-> <<>>]
    /\ (snapLast.op = "save" /\ snapLast.pre.kind = "corrupt") =>
          /\ ~snapLast.ret.alreadyExists
          /\ snapshots.kind = "ok"
          /\ DOMAIN snapshots.data = {today(now)}
          /\ snapshots.data[today(now)] = make_snapshot(snapLast.summary, now)
          /\ snapLast.ret.snapshot = snapshots.data[today(now)]
          /\ has_today_snapshot(snapshots, now)

\* C25 witness: a save has just found a file that had become unparseable
\* after two days of snapshots and written a document holding today's entry
C25_Witness ==
    /\ snapLast.op = "save" /\ snapLast.pre.kind = "corrupt"
    /\ today(now) = 2
    /\ snapshots.kind = "ok"
    /\ DOMAIN snapshots.data = {2}

(***************************************************************************)
(* PortfolioService: update and remove, called on stores of two holdings   *)
(***************************************************************************)
\* The holding of the store with that id (portfolio["holdings"][holding_id])
StoreGet(store, id) == store[CHOOSE i \in 1..Len(store) : store[i].id = id]

\* holding[key] = value on the dict of a holding
HoldingSet(holding, key, value) ==
    [f \in DOMAIN holding \cup {key} |-> IF f = key THEN value ELSE holding[f]]

\* update that stores a default (0, "Unknown") for every argument left out
update_overwrites_all(store, t, holding_id, quantity, cost_basis, account_name) ==
    IF holding_id \notin StoreIds(store)
    THEN [ret |-> None, file |-> store]
    ELSE LET h0 == StoreGet(store, holding_id)
             h1 == HoldingSet(h0, "quantity", IF IsNone(quantity) THEN 0 ELSE Val(quantity))
             h2 == HoldingSet(h1, "costBasis",
                              IF IsNone(cost_basis) THEN 0 ELSE Val(cost_basis))
             h3 == HoldingSet(h2, "accountName",
                              IF IsNone(account_name) THEN "Unknown" ELSE Val(account_name))
             holding == HoldingSet(h3, "updatedAt", t)
         IN  [ret |-> holding, file |-> StoreSet(store, holding)]

\* PortfolioService.update(holding_id, quantity, cost_basis, account_name)
\* at clock t: what it returns and the store afterwards. An argument is <<>>
\* when left out (None) and <<v>> when given
update(store, t, holding_id, quantity, cost_basis, account_name) ==
    IF holding_id \notin StoreIds(store)
    THEN [ret |-> None, file |-> store]
    ELSE LET h0 == StoreGet(store, holding_id)
             h1 == IF ~IsNone(quantity) THEN HoldingSet(h0, "quantity", Val(quantity)) ELSE h0
             h2 == IF ~IsNone(cost_basis)
                   THEN HoldingSet(h1, "costBasis", Val(cost_basis)) ELSE h1
             h3 == IF ~IsNone(account_name)
                   THEN HoldingSet(h2, "accountName", Val(account_name)) ELSE h2
             holding == HoldingSet(h3, "updatedAt", t)
         IN  [ret |-> holding, file |-> StoreSet(store, holding)]

\* del portfolio["holdings"][holding_id]
StoreDel(store, id) == SelectSeq(store, LAMBDA h : h.id # id)

\* PortfolioService.remove(holding_id): what it returns and the store afterwards
remove(store, holding_id) ==
    IF holding_id \in StoreIds(store)
    THEN [ret |-> TRUE, file |-> StoreDel(store, holding_id)]
    ELSE [ret |-> FALSE, file |-> store]

\* The holdings the stores of the edit model start with
EditInputs == {x \in AddInputs : x.ticker \in {"aapl", "MSFT", "CASH"}}

\* The ids update and remove are called with: those of the two holdings, and
\* one that no holding has
EditIds == {generate_id(0), generate_id(1), generate_id(7)}

\* The values update is given for quantity, cost basis and account name,
\* each possibly left out
EditQuantities == {NoneNum, Some(7)}
EditCosts == {NoneNum, Some(9)}
EditAccounts == {<<>>, <<"Schwab">>}

\* Two holdings have been added, one millisecond apart
EditInit ==
    /\ \E a, b \in EditInputs :
          portfolio =
              add(add(<<>>, 0, a.ticker, a.quantity, a.costBasis, "Fidelity",
                      a.assetType).file,
                  1, b.ticker, b.quantity, b.costBasis, "Fidelity", b.assetType).file
    /\ millis = 2
    /\ pfLast = [op |-> "none"]
    /\ now = 1
    /\ CacheIdle /\ FreshIdle /\ SummaryIdle /\ SnapIdle /\ CryptoIdle /\ ProcsIdle

\* A caller calls portfolio_service.update(...); pfLast holds the call that
\* has just returned, with the store it found (pre)
Update(id, quantity, cost_basis, account_name) ==
    LET r == update(portfolio, now, id, quantity, cost_basis, account_name) IN
    /\ pfLast.op = "none"
    /\ portfolio' = r.file
    /\ pfLast' = [op |-> "update", id |-> id, quantity |-> quantity,
                  costBasis |-> cost_basis, accountName |-> account_name,
                  pre |-> portfolio, ret |-> r.ret]
    /\ UNCHANGED <<cache, now, last, fq, holdings, summary, snapshots, snapLast,
                   crypto, cryptoLast, millis, procs>>

\* A caller calls portfolio_service.remove(holding_id)
Remove(id) ==
    LET r == remove(portfolio, id) IN
    /\ pfLast.op = "none"
    /\ portfolio' = r.file
    /\ pfLast' = [op |-> "remove", id |-> id, pre |-> portfolio, ret |-> r.ret]
    /\ UNCHANGED <<cache, now, last, fq, holdings, summary, snapshots, snapLast,
                   crypto, cryptoLast, millis, procs>>

\* The call has returned to its caller; the next one can be made
EditReturn ==
    /\ pfLast.op # "none"
    /\ pfLast' = [op |-> "none"]
    /\ UNCHANGED <<cache, now, last, fq, holdings, summary, snapshots, snapLast,
                   crypto, cryptoLast, portfolio, millis, procs>>

EditNext ==
    \/ \E id \in EditIds, q \in EditQuantities, c \in EditCosts, a \in EditAccounts :
          Update(id, q, c, a)
    \/ \E id \in EditIds : Remove(id)
    \/ EditReturn

SpecEdit == EditInit /\ [][EditNext]_vars

\* C26: PortfolioService.update changes only the supplied fields (quantity,
\* costBasis, accountName) plus updatedAt of the addressed holding and
\* leaves its other fields and every other holding unchanged; update of a
\* non-existent id returns None and remove of a non-existent id returns
\* False, both leaving the store unchanged.
C26_UpdateFrame ==
    /\ (pfLast.op = "update" /\ pfLast.id \in StoreIds(pfLast.pre)) =>
          LET old == StoreGet(pfLast.pre, pfLast.id)
              new == StoreGet(portfolio, pfLast.id)
              given == [quantity |-> pfLast.quantity, costBasis |-> pfLast.costBasis,
                        accountName |-> pfLast.accountName]
          IN  /\ pfLast.ret = new
              /\ DOMAIN new = DOMAIN old \cup {"updatedAt"}
              /\ \A f \in DOMAIN given :
                    new[f] = IF given[f] # <<>> THEN given[f][1] ELSE old[f]
              /\ \A f \in DOMAIN old \ (DOMAIN given \cup {"updatedAt"}) : new[f] = old[f]
              /\ Len(portfolio) = Len(pfLast.pre)
              /\ \A i \in 1..Len(portfolio) :
                    pfLast.pre[i].id # pfLast.id => portfolio[i] = pfLast.pre[i]
    /\ (pfLast.op = "update" /\ pfLast.id \notin StoreIds(pfLast.pre)) =>
          pfLast.ret = None /\ portfolio = pfLast.pre
    /\ (pfLast.op = "remove" /\ pfLast.id \notin StoreIds(pfLast.pre)) =>
          pfLast.ret = FALSE /\ portfolio = pfLast.pre

\* C26 witness: update(id, quantity = 7) has just changed the quantity of one
\* of two holdings and left its cost basis and account name as they were
C26_Witness ==
    /\ pfLast.op = "update" /\ pfLast.id \in StoreIds(pfLast.pre)
    /\ pfLast.quantity = <<7>> /\ pfLast.costBasis = <<>> /\ pfLast.accountName = <<>>
    /\ Len(portfolio) = 2
    /\ StoreGet(portfolio, pfLast.id).quantity = 7
    /\ StoreGet(pfLast.pre, pfLast.id).quantity # 7
    /\ StoreGet(portfolio, pfLast.id).costBasis = StoreGet(pfLast.pre, pfLast.id).costBasis
    /\ StoreGet(portfolio, pfLast.id).accountName = "Fidelity"

(***************************************************************************)
(* CryptoService: the age of the prices served from the batch cache        *)
(*                                                                         *)
(* The market moves: the usd price CoinGecko quotes at clock t is          *)
(* QuoteBase + t, so that a price tells when it was fetched.               *)
(***************************************************************************)
\* The usd price quoted at clock 0
QuoteBase == 40

\* The usd price CoinGecko quotes for every coin at clock t
quote(t) == QuoteBase + t

\* The clock at which a price was quoted, that is, fetched from upstream
fetched_when(price_data) == price_data.price - QuoteBase

\* What CoinGecko answers to /simple/price at clock t: an error, or for some
\* of the coin ids the price quoted at t
QuotedOutcomes(t) ==
    {[kind |-> "raise"]}
    \cup {[kind |-> "ok", data |-> [c \in C |-> quote(t)]] :
             C \in SUBSET {"bitcoin", "ethereum"}}

\* The cache directory holds no prices.json
AgeInit ==
    /\ crypto = Absent
    /\ cryptoLast = [op |-> "none"]
    /\ now = 0
    /\ CacheIdle /\ FreshIdle /\ SummaryIdle /\ SnapIdle /\ PortfolioIdle /\ ProcsIdle

AgeNext ==
    \/ \E tickers \in SUBSET CryptoTickers, f \in BOOLEAN, u \in QuotedOutcomes(now) :
          tickers # {} /\ GetPricesBatch(tickers, f, u)
    \/ CryptoTick

SpecAge == AgeInit /\ [][AgeNext]_vars

\* The tickers the call that has just returned was served from the cache
ServedFromCache ==
    IF cryptoLast.op = "batch" /\ ~cryptoLast.force
    THEN cryptoLast.tickers \cap DOMAIN crypto_read_cache(cryptoLast.pre, now)
    ELSE {}

\* C29: a crypto price is served from the batch price cache only while it
\* is younger than the 12-hour TTL measured from the moment that price
\* itself was fetched: after any sequence of get_prices_batch calls for any
\* tickers, no call without force_refresh returns from cache a price that
\* was fetched from upstream more than 12 hours earlier.
C29_ServedPriceYoungerThanTtl ==
    \A x \in ServedFromCache :
        now - fetched_when(cryptoLast.results[x]) <= CacheTtl

(***************************************************************************)
(* FMPCache: two get calls in flight on one event loop                     *)
(*                                                                         *)
(* get runs on the asyncio event loop of the one server process: the code  *)
(* between two awaits runs without interruption. Its only await is the     *)
(* fetch (line 152), so a call is two steps: from its start to the await,  *)
(* and from the fetcher's answer to its return.                            *)
(***************************************************************************)
\* The callers of the model
Procs == {1, 2}

\* A caller that has no call in flight
Idle == [pc |-> "idle"]

\* The symbol each caller passes: the same ticker, in two spellings
RaceSymbol(p) == IF p = 1 THEN "aapl" ELSE "AAPL"

\* What the upstream answers to a caller of the race model
RaceOutcomes == {"raise", "None", "p1", "p2"}

\* get from its start to the await of the fetcher (lines 140-150) on the
\* store c at clock t: the call returns the cached payload on a hit, and
\* otherwise waits for the fetcher with what it read in its local "cached"
get_begin(c, t, endpoint, symbol0, force_refresh) ==
    LET symbol == Upper(symbol0)
        cached_bound == ~force_refresh
        cached == IF cached_bound THEN read_cache(c, symbol, endpoint) ELSE None
    IN  IF cached.kind = "error"
        THEN [pc |-> "done", cached |-> cached, ret |-> "None",
              raised |-> "JSONDecodeError", fetched |-> FALSE, hit |-> FALSE]
        ELSE IF cache_hit(force_refresh, cached, endpoint, t)
        THEN [pc |-> "done", cached |-> cached, ret |-> cached.data,
              raised |-> "none", fetched |-> FALSE, hit |-> TRUE]
        ELSE [pc |-> "fetching", cached |-> cached, cached_bound |-> cached_bound]

\* get_finish that writes nothing when the file has changed since the call
\* read it
get_finish_first_writer_wins(c, t, endpoint, symbol0, cached, cached_bound, api) ==
    LET symbol == Upper(symbol0)
        data == fetch_from_api(endpoint, api)
    IN  IF data # "raise"
        THEN [ret |-> data, raised |-> "none",
              cache |-> IF is_valid_data(data)
                           /\ read_cache(c, symbol, endpoint) = cached
                        THEN write_cache(c, symbol, endpoint, data, t)
                        ELSE c]
        ELSE IF ~cached_bound
        THEN [ret |-> "None", raised |-> "UnboundLocalError", cache |-> c]
        ELSE IF cached.kind = "entry"
        THEN [ret |-> cached.data, raised |-> "none", cache |-> c]
        ELSE [ret |-> "None", raised |-> "none", cache |-> c]

\* get from the fetcher's answer to its return (lines 152-165) on the store
\* c at clock t, with the locals of the call
get_finish(c, t, endpoint, symbol0, cached, cached_bound, api) ==
    LET symbol == Upper(symbol0)
        data == fetch_from_api(endpoint, api)
    IN  IF data # "raise"
        THEN [ret |-> data, raised |-> "none",
              cache |-> IF is_valid_data(data)
                        THEN write_cache(c, symbol, endpoint, data, t)
                        ELSE c]
        ELSE IF ~cached_bound
        THEN [ret |-> "None", raised |-> "UnboundLocalError", cache |-> c]
        ELSE IF cached.kind = "entry"
        THEN [ret |-> cached.data, raised |-> "none", cache |-> c]
        ELSE [ret |-> "None", raised |-> "none", cache |-> c]

\* The rank of the call that completes now among the calls that have
\* completed and not yet been collected
NextOrder ==
    1 + Cardinality({q \in Procs : procs[q].pc = "done"})

\* An empty cache directory; no call is in flight
RaceInit ==
    /\ cache = [k \in Keys |-> Absent]
    /\ now = 0
    /\ last = NoCall
    /\ procs = [p \in Procs |-> Idle]
    /\ FreshIdle /\ SummaryIdle /\ SnapIdle /\ CryptoIdle /\ PortfolioIdle

\* Caller p awaits fmp_cache.get("profile", symbol): the call runs to its
\* return on a hit, and to the await of the fetcher otherwise
RaceBegin(p) ==
    LET r == get_begin(cache, now, "profile", RaceSymbol(p), FALSE) IN
    /\ procs[p].pc = "idle"
    /\ procs' = [procs EXCEPT ![p] =
                    IF r.pc = "done"
                    THEN [pc |-> "done", cached |-> r.cached, api |-> "raise",
                          ret |-> r.ret, raised |-> r.raised, fetched |-> FALSE,
                          order |-> NextOrder]
                    ELSE r]
    /\ UNCHANGED <<cache, now, last, fq, holdings, summary, snapshots, snapLast,
                   crypto, cryptoLast, portfolio, millis, pfLast>>

\* The fetcher of caller p answers (or raises) and the call runs to its return
RaceFinish(p, api) ==
    LET r == get_finish(cache, now, "profile", RaceSymbol(p), procs[p].cached,
                        procs[p].cached_bound, api)
    IN  /\ procs[p].pc = "fetching"
        /\ cache' = r.cache
        /\ procs' = [procs EXCEPT ![p] =
                        [pc |-> "done", cached |-> procs[p].cached, api |-> api,
                         ret |-> r.ret, raised |-> r.raised, fetched |-> TRUE,
                         order |-> NextOrder]]
        /\ UNCHANGED <<now, last, fq, holdings, summary, snapshots, snapLast,
                       crypto, cryptoLast, portfolio, millis, pfLast>>

\* Both callers have their results and go on; either may call again
RaceReturn ==
    /\ \A p \in Procs : procs[p].pc = "done"
    /\ procs' = [p \in Procs |-> Idle]
    /\ UNCHANGED <<cache, now, last, fq, holdings, summary, snapshots, snapLast,
                   crypto, cryptoLast, portfolio, millis, pfLast>>

\* Wall-clock time passes, calls in flight or not
RaceTick ==
    /\ now < MaxNow
    /\ now' = now + 1
    /\ UNCHANGED <<cache, last, fq, holdings, summary, snapshots, snapLast,
                   crypto, cryptoLast, portfolio, millis, pfLast, procs>>

RaceNext ==
    \/ \E p \in Procs : RaceBegin(p)
    \/ \E p \in Procs, api \in RaceOutcomes : RaceFinish(p, api)
    \/ RaceReturn
    \/ RaceTick

SpecRace == RaceInit /\ [][RaceNext]_vars

\* The file of the ticker both callers ask about
RaceKey == <<"AAPL", "profile">>

\* Both calls have completed, each after a fetch that did not raise, having
\* found the entry missing or stale
BothFetched ==
    \A p \in Procs :
        /\ procs[p].pc = "done"
        /\ procs[p].fetched
        /\ procs[p].api # "raise"

\* The caller, of two that have completed, that completed last
LastDone == CHOOSE p \in Procs : \A q \in Procs : procs[q].order <= procs[p].order

\* The callers whose fetcher returned a payload that get persists
ValidFetchers == {p \in Procs : is_valid_data(procs[p].api)}

\* C22 as stated: when two get calls for the same key run concurrently on a
\* missing or stale entry and both fetches succeed, once both calls have
\* completed the stored entry is exactly the payload of the call that wrote
\* last, never a mixture of the two payloads and never an absent entry, and
\* each call returns the payload it fetched itself.
C22_LastWriterWins ==
    BothFetched =>
        /\ cache[RaceKey].kind = "entry"
        /\ cache[RaceKey].data = procs[LastDone].api
        /\ \A p \in Procs : procs[p].ret = procs[p].api /\ procs[p].raised = "none"

\* C22 amended: when two get calls for the same key run concurrently on a
\* missing or stale entry and both fetchers return, each call returns what
\* its own fetcher returned; once both have completed, the stored entry is
\* exactly the entry written by the last of the calls whose payload was
\* valid (not None, not an error dict), whole and with the time of that
\* write; if neither payload was valid the file is as the calls found it
\* (absent if it was missing).
C22_LastValidWriterWins ==
    BothFetched =>
        /\ \A p \in Procs : procs[p].ret = procs[p].api /\ procs[p].raised = "none"
        /\ ValidFetchers # {} =>
              LET w == CHOOSE p \in ValidFetchers :
                           \A q \in ValidFetchers : procs[q].order <= procs[p].order
              IN  /\ cache[RaceKey].kind = "entry"
                  /\ cache[RaceKey].data = procs[w].api
                  /\ cache[RaceKey].symbol = "AAPL"
                  /\ cache[RaceKey].endpoint = "profile"
                  /\ cache[RaceKey].fetched_at <= now
        /\ ValidFetchers = {} =>
              \A p \in Procs :
                  read_cache(cache, "AAPL", "profile") = procs[p].cached

\* C22 witness: both calls found the entry missing, the first to complete
\* fetched p1 and the second p2; each has returned its own payload and the
\* file holds p2
C22_Witness ==
    /\ BothFetched
    /\ procs[1].cached = None /\ procs[2].cached = None
    /\ procs[1].order = 1 /\ procs[1].api = "p1" /\ procs[1].ret = "p1"
    /\ procs[2].order = 2 /\ procs[2].api = "p2" /\ procs[2].ret = "p2"
    /\ cache[RaceKey].data = "p2"

(***************************************************************************)
(* The route take_snapshot (routes/portfolio.py) with two requests in      *)
(* flight on one event loop                                                *)
(*                                                                         *)
(* The request tests has_today_snapshot, awaits the prices of the holdings *)
(* (get_prices_batch, asyncio.gather of fmp_cache.get), then computes the  *)
(* summary and calls save_snapshot: two steps, one on each side of the     *)
(* awaits. The portfolio holds at least one holding.                       *)
(***************************************************************************)
\* take_snapshot(force) from its start to the awaits (lines 328-330) on the
\* file at clock t
take_snapshot_begin(file, t, force) ==
    IF ~force /\ has_today_snapshot(file, t)
    THEN [pc |-> "done", saved |-> FALSE, alreadyExists |-> TRUE]
    ELSE [pc |-> "pricing"]

\* take_snapshot_finish that saves without looking for today's entry again
take_snapshot_finish_trusts_check(file, t, sm, force) ==
    save_snapshot_always_writes(file, t, sm, force)

\* take_snapshot(force) from the summary to its return (lines 376-379): the
\* summary of the prices it fetched goes to save_snapshot
take_snapshot_finish(file, t, sm, force) ==
    save_snapshot(file, t, sm, force)

\* snapshots.json holds {}; no request is in flight
TakeInit ==
    /\ snapshots = [kind |-> "ok", data |-> <<>>]
    /\ snapLast = [op |-> "none"]
    /\ now = 0
    /\ procs = [p \in Procs |-> Idle]
    /\ CacheIdle /\ FreshIdle /\ SummaryIdle /\ CryptoIdle /\ PortfolioIdle

\* Request p (POST /portfolio/snapshot, force left out) starts: it returns
\* at once if today's snapshot exists and awaits the prices otherwise
TakeBegin(p) ==
    LET r == take_snapshot_begin(snapshots, now, FALSE) IN
    /\ procs[p].pc = "idle"
    /\ procs' = [procs EXCEPT ![p] =
                    IF r.pc = "done"
                    THEN [pc |-> "done", saved |-> FALSE, alreadyExists |-> TRUE,
                          day |-> today(now), order |-> NextOrder]
                    ELSE r]
    /\ UNCHANGED <<cache, now, last, fq, holdings, summary, snapshots, snapLast,
                   crypto, cryptoLast, portfolio, millis, pfLast>>

\* The prices request p awaited are there: it computes the summary sm of
\* them, calls save_snapshot and returns
TakeFinish(p, sm) ==
    LET r == take_snapshot_finish(snapshots, now, sm, FALSE) IN
    /\ procs[p].pc = "pricing"
    /\ snapshots' = r.file
    /\ procs' = [procs EXCEPT ![p] =
                    [pc |-> "done", saved |-> TRUE,
                     alreadyExists |-> r.ret.alreadyExists,
                     day |-> r.ret.date, summary |-> sm,
                     snapshot |-> r.ret.snapshot, order |-> NextOrder]]
    /\ UNCHANGED <<cache, now, last, fq, holdings, summary, snapLast,
                   crypto, cryptoLast, portfolio, millis, pfLast>>

\* Both requests have been answered; the application may load again
TakeReturn ==
    /\ \A p \in Procs : procs[p].pc = "done"
    /\ procs' = [p \in Procs |-> Idle]
    /\ UNCHANGED <<cache, now, last, fq, holdings, summary, snapshots, snapLast,
                   crypto, cryptoLast, portfolio, millis, pfLast>>

\* Wall-clock time passes, requests in flight or not
TakeTick ==
    /\ now + 1 < (MaxDay + 1) * UnitsPerDay
    /\ now' = now + 1
    /\ UNCHANGED <<cache, last, fq, holdings, summary, snapshots, snapLast,
                   crypto, cryptoLast, portfolio, millis, pfLast, procs>>

TakeNext ==
    \/ \E p \in Procs : TakeBegin(p)
    \/ \E p \in Procs, sm \in SnapSummaries : TakeFinish(p, sm)
    \/ TakeReturn
    \/ TakeTick

SpecTake == TakeInit /\ [][TakeNext]_vars

\* The requests that have called save_snapshot on day d and are not yet collected
Savers(d) == {p \in Procs : procs[p].pc = "done" /\ procs[p].saved /\ procs[p].day = d}

\* Among the requests in flight, the entry of each day was stored by the
\* first to reach save_snapshot on that day, from its summary, and the
\* later ones got it back with alreadyExists
StoredByFirst ==
    \A d \in 0..MaxDay : \A p \in Savers(d) :
        /\ d \in DOMAIN load_snapshots(snapshots)
        /\ procs[p].snapshot = load_snapshots(snapshots)[d]
        /\ ~procs[p].alreadyExists =>
              /\ procs[p].snapshot.totalValue = procs[p].summary.totalValue
              /\ \A q \in Savers(d) \ {p} :
                    procs[q].alreadyExists /\ procs[q].order > procs[p].order

\* No step alters or removes the entry of a day once it is stored
StoredOnce ==
    \A d \in DOMAIN load_snapshots(snapshots) :
        /\ d \in DOMAIN load_snapshots(snapshots')
        /\ load_snapshots(snapshots')[d] = load_snapshots(snapshots)[d]

\* C27: under any interleaving of concurrent non-forced take_snapshot
\* requests on the same day, today's snapshot is written exactly once: the
\* first request to reach save_snapshot stores its summary, and every later
\* request leaves the stored entry unchanged, so repeated or overlapping
\* application loads never duplicate or alter the day's history.
C27_SnapshotWrittenOnce == []StoredByFirst /\ [][StoredOnce]_vars

\* C27 witness: both requests found no snapshot for today and awaited their
\* prices; the first to finish stored its summary and the second, with
\* another summary, got the stored entry back
C27_Witness ==
    /\ \A p \in Procs : procs[p].pc = "done" /\ procs[p].saved /\ procs[p].day = today(now)
    /\ ~procs[1].alreadyExists /\ procs[1].order = 1
    /\ procs[2].alreadyExists /\ procs[2].order = 2
    /\ procs[2].summary.totalValue # procs[1].summary.totalValue
    /\ load_snapshots(snapshots)[today(now)].totalValue = procs[1].summary.totalValue

(***************************************************************************)
(* CryptoService: two get_prices_batch calls in flight on one event loop   *)
(*                                                                         *)
(* _get_coin_id awaits nothing, so the call is suspended at the request to *)
(* CoinGecko alone (line 173): it is two steps, from its start to the      *)
(* request and from the response to its return. The request times out      *)
(* after 10 seconds (self.timeout), far less than a unit of the clock: the *)
(* clock does not advance while a call is in flight.                       *)
(***************************************************************************)
\* The tickers each caller asks about: disjoint
BatchTickers(p) == IF p = 1 THEN {"BTC"} ELSE {"ETH"}

\* get_prices_batch(tickers, force_refresh) from its start to the request
\* (lines 142-170) on the file at clock t: it returns when every ticker is
\* cached or none has a coin id, and otherwise awaits CoinGecko with its
\* locals cached and coin_ids
batch_begin(file, t, tickers, force_refresh) ==
    LET cached == IF force_refresh THEN <<>> ELSE crypto_read_cache(file, t)
        tickers_to_fetch == tickers \ DOMAIN cached
        coin_ids == [x \in tickers_to_fetch \cap DOMAIN CRYPTO_ID_MAP |-> CRYPTO_ID_MAP[x]]
    IN  IF tickers_to_fetch = {} \/ DOMAIN coin_ids = {}
        THEN [pc |-> "done", requested |-> FALSE,
              results |-> [x \in tickers |->
                              IF x \in DOMAIN cached THEN cached[x] ELSE NoPrice]]
        ELSE [pc |-> "requesting", cached |-> cached, coin_ids |-> coin_ids]

\* batch_finish that merges the fresh prices into the prices the call read
\* at its start
batch_finish_merges_start_read(file, t, tickers, cached, coin_ids, upstream) ==
    LET answered == IF upstream.kind = "ok"
                    THEN {x \in DOMAIN coin_ids : coin_ids[x] \in DOMAIN upstream.data}
                    ELSE {}
        fresh_prices == [x \in answered |->
                            PriceData(x, coin_ids[x], upstream.data[coin_ids[x]])]
        results == [x \in tickers |->
                       IF x \in DOMAIN cached THEN cached[x]
                       ELSE IF x \in answered THEN fresh_prices[x]
                       ELSE NoPrice]
    IN  [results |-> results,
         file |-> IF answered # {} THEN PricesFile(t, DictUpdate(cached, fresh_prices))
                  ELSE file]

\* get_prices_batch from CoinGecko's response to its return (lines 186-221)
\* on the file at clock t, with the locals of the call
batch_finish(file, t, tickers, cached, coin_ids, upstream) ==
    LET answered == IF upstream.kind = "ok"
                    THEN {x \in DOMAIN coin_ids : coin_ids[x] \in DOMAIN upstream.data}
                    ELSE {}
        fresh_prices == [x \in answered |->
                            PriceData(x, coin_ids[x], upstream.data[coin_ids[x]])]
        results == [x \in tickers |->
                       IF x \in DOMAIN cached THEN cached[x]
                       ELSE IF x \in answered THEN fresh_prices[x]
                       ELSE NoPrice]
    IN  [results |-> results,
         file |-> IF answered # {} THEN crypto_write_cache(file, t, fresh_prices)
                  ELSE file]

\* The cache directory holds no prices.json; no call is in flight
BatchInit ==
    /\ crypto = Absent
    /\ cryptoLast = [op |-> "none"]
    /\ now = 0
    /\ procs = [p \in Procs |-> Idle]
    /\ CacheIdle /\ FreshIdle /\ SummaryIdle /\ SnapIdle /\ PortfolioIdle

\* Caller p awaits get_prices_batch(tickers, force_refresh)
BatchBegin(p, force_refresh) ==
    LET r == batch_begin(crypto, now, BatchTickers(p), force_refresh) IN
    /\ procs[p].pc = "idle"
    /\ procs' = [procs EXCEPT ![p] =
                    IF r.pc = "done"
                    THEN [pc |-> "done", requested |-> FALSE, results |-> r.results,
                          order |-> NextOrder]
                    ELSE r]
    /\ UNCHANGED <<cache, now, last, fq, holdings, summary, snapshots, snapLast,
                   crypto, cryptoLast, portfolio, millis, pfLast>>

\* CoinGecko answers the request of caller p (or the request fails) and the
\* call runs to its return
BatchFinish(p, upstream) ==
    LET r == batch_finish(crypto, now, BatchTickers(p), procs[p].cached,
                          procs[p].coin_ids, upstream)
    IN  /\ procs[p].pc = "requesting"
        /\ crypto' = r.file
        /\ procs' = [procs EXCEPT ![p] =
                        [pc |-> "done", requested |-> TRUE, results |-> r.results,
                         order |-> NextOrder]]
        /\ UNCHANGED <<cache, now, last, fq, holdings, summary, snapshots, snapLast,
                       cryptoLast, portfolio, millis, pfLast>>

\* Both callers have their results and go on
BatchReturn ==
    /\ \A p \in Procs : procs[p].pc = "done"
    /\ procs' = [p \in Procs |-> Idle]
    /\ UNCHANGED <<cache, now, last, fq, holdings, summary, snapshots, snapLast,
                   crypto, cryptoLast, portfolio, millis, pfLast>>

\* Wall-clock time passes between the calls
BatchTick ==
    /\ \A p \in Procs : procs[p].pc = "idle"
    /\ now < MaxNow
    /\ now' = now + 1
    /\ UNCHANGED <<cache, last, fq, holdings, summary, snapshots, snapLast,
                   crypto, cryptoLast, portfolio, millis, pfLast, procs>>

BatchNext ==
    \/ \E p \in Procs, f \in BOOLEAN : BatchBegin(p, f)
    \/ \E p \in Procs, u \in CoinGeckoOutcomes : BatchFinish(p, u)
    \/ BatchReturn
    \/ BatchTick

SpecBatch == BatchInit /\ [][BatchNext]_vars

\* Both calls have completed, each after a request to CoinGecko that
\* answered with the price of its ticker
BothRequestsSucceeded ==
    \A p \in Procs :
        /\ procs[p].pc = "done"
        /\ procs[p].requested
        /\ \A x \in BatchTickers(p) : procs[p].results[x].kind = "price"

\* C30: under any interleaving of two concurrent get_prices_batch calls for
\* disjoint crypto tickers A and B whose upstream requests both succeed,
\* once both calls have completed the price cache contains both A's and B's
\* price: neither call's cache write discards the entry written by the
\* other.
C30_BothPricesCached ==
    BothRequestsSucceeded =>
        /\ crypto.kind = "ok"
        /\ \A p \in Procs : \A x \in BatchTickers(p) :
              /\ x \in DOMAIN crypto.prices
              /\ crypto.prices[x] = procs[p].results[x]
              /\ x \in DOMAIN crypto_read_cache(crypto, now)

\* C30 witness: both calls read a stale file before either request was
\* answered; BTC was written first, ETH second, and the file holds both
C30_Witness ==
    /\ BothRequestsSucceeded
    /\ now = 2
    /\ procs[1].order = 1 /\ procs[2].order = 2
    /\ crypto.fetchedAt = 2
    /\ DOMAIN crypto.prices = {"BTC", "ETH"}
    /\ crypto.prices["BTC"].price = 45 /\ crypto.prices["ETH"].price = 50
====
